---- MODULE Spec2Model ----
(***************************************************************************)
(* A model of the hackvm program builder (vmcommand.rs) and of the VM      *)
(* emulator (vmemulator.rs): token streams are loaded into a VMProgram and *)
(* a host drives the emulator through init / step / run / reset.           *)
(*                                                                         *)
(* Indices (file_index, function_index, command index, RAM addresses) keep *)
(* the 0-based values of the source; TLA+ sequences are 1-based, so a      *)
(* lookup at index i reads element i + 1.                                  *)
(***************************************************************************)
EXTENDS Integers, Sequences, FiniteSets, TLC

(***************************************************************************)
(* Program constants.                                                      *)
(***************************************************************************)
RAM_SIZE == 24577
SP == 0
LCL == 1
ARG == 2
THIS == 3
THAT == 4
STACK_BASE == 256
STATIC_BASE == 16
TEMP_BASE == 5
TEMP_LEN == 8
SAVED_CELLS == 5
MISSING_FILE == 1000
MISSING_FUNC == 1
U16_MOD == 65536

\* the largest and the smallest value of an i32 cell
I32_MAX == 2147483647

I32_MIN == -I32_MAX - 1

(***************************************************************************)
(* Bounds of the exploration.                                              *)
(***************************************************************************)
MaxLocals == 1
MaxArgs == 2
MaxBudget == 3
MaxHostCalls == 2
MaxSteps == 16

(***************************************************************************)
(* Tokens (vmparser.rs Token) and segments (vmcommand.rs Segment).         *)
(***************************************************************************)
SEGMENTS == {"constant", "argument", "local", "static", "this", "that", "pointer", "temp"}

ArithOps == {"neg", "not", "add", "sub", "and", "or", "eq", "lt", "gt"}

Push(seg, i) == [op |-> "push", seg |-> seg, idx |-> i]

Pop(seg, i) == [op |-> "pop", seg |-> seg, idx |-> i]

Arith(o) == [op |-> o]

Label(l) == [op |-> "label", name |-> l]

Goto(l) == [op |-> "goto", name |-> l]

IfGoto(l) == [op |-> "if-goto", name |-> l]

Function(f, k) == [op |-> "function", name |-> f, n |-> k]

Call(f, n) == [op |-> "call", name |-> f, n |-> n]

Return == [op |-> "return"]

(***************************************************************************)
(* Function references (vmcommand.rs FunctionRef / InCodeFuncRef).         *)
(***************************************************************************)
InCode(fi, fj) == [kind |-> "InCode", file_index |-> fi, function_index |-> fj]

Internal(id) == [kind |-> "Internal", id |-> id]

(***************************************************************************)
(* Small sequence helpers.                                                 *)
(***************************************************************************)
Max(a, b) == IF a >= b THEN a ELSE b

RECURSIVE Concat(_)
Concat(ss) == IF ss = <<>> THEN <<>> ELSE Head(ss) \o Concat(Tail(ss))

(***************************************************************************)
(* vmcommand.rs: grouping the token stream of a file into functions.       *)
(***************************************************************************)
IsFunctionToken(t) == t.op = "function"

\* GroupByBound::next: the end j of the group that starts at 1-based position i
RECURSIVE GroupEnd(_, _)
GroupEnd(data, j) ==
    IF j <= Len(data) /\ ~IsFunctionToken(data[j]) THEN GroupEnd(data, j + 1) ELSE j

RECURSIVE GroupByBound(_, _)
GroupByBound(data, i) ==
    IF i > Len(data) THEN <<>>
    ELSE LET j == GroupEnd(data, i + 1)
         IN  <<SubSeq(data, i, j - 1)>> \o GroupByBound(data, j)

\* TokenizedFunction::from_tokens
TokenizedFunction_from_tokens(tokens) ==
    IF Len(tokens) = 0 THEN [ok |-> FALSE, err |-> "NoTokens"]
    ELSE IF IsFunctionToken(tokens[1])
         THEN [ok |-> TRUE, name |-> tokens[1].name, commands |-> tokens]
         ELSE [ok |-> FALSE, err |-> "NoFunctionDeclaration"]

\* TokenizedFile::from_tokens: the first failing function fails the file
TokenizedFile_from_tokens(name, tokens) ==
    LET groups == GroupByBound(tokens, 1)
        funcs  == [g \in 1..Len(groups) |-> TokenizedFunction_from_tokens(groups[g])]
    IN  IF \E g \in 1..Len(groups) : ~funcs[g].ok
        THEN [ok |-> FALSE, err |-> "FailedTokenizingFile"]
        ELSE [ok |-> TRUE, name |-> name, functions |-> funcs]

\* TokenizedProgram::from_files, from the token list parse_lines gave per file
TokenizedProgram_from_files(files) ==
    LET one(f) == IF Len(f.tokens) = 0
                  THEN [ok |-> FALSE, err |-> "EmptyFile"]
                  ELSE TokenizedFile_from_tokens(f.name, f.tokens)
        tfiles == [i \in 1..Len(files) |-> one(files[i])]
    IN  IF \E i \in 1..Len(files) : ~tfiles[i].ok
        THEN [ok |-> FALSE,
              err |-> tfiles[CHOOSE i \in 1..Len(files) :
                               ~tfiles[i].ok /\ \A j \in 1..(i - 1) : tfiles[j].ok].err]
        ELSE [ok |-> TRUE, files |-> tfiles]

(***************************************************************************)
(* vmcommand.rs: push/pop fusion and the label table of a function.        *)
(***************************************************************************)
CopySegToken(a, b) ==
    [op |-> "copyseg", from_segment |-> a.seg, from_index |-> a.idx,
     to_segment |-> b.seg, to_index |-> b.idx]

RECURSIVE get_optimized_tokens(_)
get_optimized_tokens(commands) ==
    IF commands = <<>> THEN <<>>
    ELSE IF Len(commands) >= 2 /\ commands[1].op = "push" /\ commands[2].op = "pop"
         THEN <<CopySegToken(commands[1], commands[2])>>
                  \o get_optimized_tokens(SubSeq(commands, 3, Len(commands)))
         ELSE <<commands[1]>> \o get_optimized_tokens(Tail(commands))

\* a label table that counts the labels as commands
RECURSIVE build_label_table_counting_labels(_, _, _, _)
build_label_table_counting_labels(func_tokens, label_table, command_index, command_tokens) ==
    IF func_tokens = <<>>
    THEN [ok |-> TRUE, label_table |-> label_table, commands |-> command_tokens]
    ELSE IF Head(func_tokens).op = "label"
    THEN IF Head(func_tokens).name \in DOMAIN label_table
         THEN [ok |-> FALSE, err |-> "DuplicateLabel"]
         ELSE build_label_table_counting_labels(Tail(func_tokens),
                  label_table @@ (Head(func_tokens).name :> command_index),
                  command_index + 1, command_tokens)
    ELSE build_label_table_counting_labels(Tail(func_tokens), label_table,
                  command_index + 1, Append(command_tokens, Head(func_tokens)))

\* label_table is a function from the labels seen so far to command indices
RECURSIVE build_label_table_from(_, _, _, _)
build_label_table_from(func_tokens, label_table, command_index, command_tokens) ==
    IF func_tokens = <<>>
    THEN [ok |-> TRUE, label_table |-> label_table, commands |-> command_tokens]
    ELSE LET token == Head(func_tokens)
         IN  IF token.op = "label"
             THEN IF token.name \in DOMAIN label_table
                  THEN [ok |-> FALSE, err |-> "DuplicateLabel"]
                  ELSE build_label_table_from(Tail(func_tokens),
                           label_table @@ (token.name :> command_index),
                           command_index, command_tokens)
             ELSE build_label_table_from(Tail(func_tokens), label_table,
                           command_index + 1, Append(command_tokens, token))

build_label_table(func_tokens) ==
    build_label_table_from(func_tokens, << >>, 0, << >>)

\* TokenizedFunctionOptimized::from
TokenizedFunctionOptimized_from(tokenized_func) ==
    LET optimized == get_optimized_tokens(tokenized_func.commands)
        built     == build_label_table(optimized)
    IN  IF built.ok
        THEN [ok |-> TRUE, name |-> tokenized_func.name,
              label_table |-> built.label_table, commands |-> built.commands]
        ELSE built

(***************************************************************************)
(* vmcommand.rs: VMProgram::with_internals.                                *)
(***************************************************************************)
\* (index + 1) on a u16, as written at the num_statics tallies; release
\* builds wrap at 65535 and debug builds abort there (no index used below
\* is that large)
U16Succ(index) == (index + 1) % U16_MOD

\* the functions declared in code, in (file, function) order
DeclaredFunctions(tfiles) ==
    Concat([fi \in 1..Len(tfiles) |->
              [fj \in 1..Len(tfiles[fi].functions) |->
                 [name |-> tfiles[fi].functions[fj].name, ref |-> InCode(fi - 1, fj - 1)]]])

\* bimap::BiMap::insert on the table of line 381: the pair (name, ref) is
\* added and every pair that has the same name or the same reference is
\* dropped
bimap_insert(function_table, name, ref) ==
    [k \in {j \in DOMAIN function_table : function_table[j] # ref} \cup {name} |->
       IF k = name THEN ref ELSE function_table[k]]

\* lines 385-389: the intrinsics are inserted first, in the order in which
\* the HashMap iterates (internal_funcs lists them in that order)
RECURSIVE seed_function_table(_, _)
seed_function_table(internal_funcs, function_table) ==
    IF internal_funcs = <<>> THEN function_table
    ELSE seed_function_table(Tail(internal_funcs),
                             bimap_insert(function_table, Head(internal_funcs).name,
                                          Head(internal_funcs).ref))

\* a loop that lets a declaration in code replace the intrinsic of its name
RECURSIVE build_function_table_code_first(_, _)
build_function_table_code_first(decls, function_table) ==
    IF decls = <<>> THEN [ok |-> TRUE, function_table |-> function_table]
    ELSE LET d == Head(decls)
         IN  IF d.name \in DOMAIN function_table /\ function_table[d.name].kind = "InCode"
             THEN [ok |-> FALSE, err |-> "DuplicateFunction"]
             ELSE build_function_table_code_first(
                      Tail(decls), bimap_insert(function_table, d.name, d.ref))

\* lines 391-408: the loop that adds the declared functions to the table
RECURSIVE build_function_table(_, _)
build_function_table(decls, function_table) ==
    IF decls = <<>> THEN [ok |-> TRUE, function_table |-> function_table]
    ELSE LET d == Head(decls)
         IN  IF d.name \in DOMAIN function_table
             THEN IF function_table[d.name].kind = "InCode"
                  THEN [ok |-> FALSE, err |-> "DuplicateFunction"]
                  ELSE build_function_table(Tail(decls), function_table)
             ELSE build_function_table(Tail(decls),
                                       bimap_insert(function_table, d.name, d.ref))

StaticTally(segment, index) == IF segment = "static" THEN U16Succ(index) ELSE 0

\* lines 442-533: the match over the optimized token
token_to_command_strict(token, label_table, function_table) ==
    CASE token.op = "copyseg" ->
           [ok |-> TRUE, warn |-> FALSE,
            statics |-> Max(StaticTally(token.from_segment, token.from_index),
                            StaticTally(token.to_segment, token.to_index)),
            cmd |-> [op |-> "CopySeg",
                     from_segment |-> token.from_segment, from_index |-> token.from_index,
                     to_segment |-> token.to_segment, to_index |-> token.to_index]]
      [] token.op \in ArithOps ->
           [ok |-> TRUE, warn |-> FALSE, statics |-> 0,
            cmd |-> [op |-> "Arithmetic", operation |-> token.op]]
      [] token.op = "call" ->
           IF token.name \in DOMAIN function_table
           THEN [ok |-> TRUE, warn |-> FALSE, statics |-> 0,
                 cmd |-> [op |-> "Call", fn |-> function_table[token.name], n |-> token.n]]
           ELSE [ok |-> TRUE, warn |-> TRUE, statics |-> 0,
                 cmd |-> [op |-> "Call", fn |-> InCode(MISSING_FILE, MISSING_FUNC),
                          n |-> token.n]]
      [] token.op = "return" ->
           [ok |-> TRUE, warn |-> FALSE, statics |-> 0, cmd |-> [op |-> "Return"]]
      [] token.op = "if-goto" ->
           IF token.name \in DOMAIN label_table
           THEN [ok |-> TRUE, warn |-> FALSE, statics |-> 0,
                 cmd |-> [op |-> "If", index |-> label_table[token.name]]]
           ELSE [ok |-> FALSE, err |-> "UnresolvedLabel"]
      [] token.op = "goto" ->
           IF token.name \in DOMAIN label_table
           THEN [ok |-> TRUE, warn |-> FALSE, statics |-> 0,
                 cmd |-> [op |-> "Goto", index |-> label_table[token.name]]]
           ELSE [ok |-> FALSE, err |-> "UnresolvedLabel"]
      [] token.op = "push" ->
           [ok |-> TRUE, warn |-> FALSE, statics |-> StaticTally(token.seg, token.idx),
            cmd |-> [op |-> "Push", seg |-> token.seg, idx |-> token.idx]]
      [] token.op = "pop" ->
           [ok |-> TRUE, warn |-> FALSE, statics |-> StaticTally(token.seg, token.idx),
            cmd |-> [op |-> "Pop", seg |-> token.seg, idx |-> token.idx]]

\* a conversion that sends a branch to an unknown label to the start of
\* the function, with a warning, as an unknown call gets a sentinel
token_to_command_lenient(token, label_table, function_table) ==
    IF token.op \in {"goto", "if-goto"} /\ token.name \notin DOMAIN label_table
    THEN [ok |-> TRUE, warn |-> TRUE, statics |-> 0,
          cmd |-> [op |-> IF token.op = "goto" THEN "Goto" ELSE "If", index |-> 0]]
    ELSE token_to_command_strict(token, label_table, function_table)

\* lines 442-533: one optimized token to one command
token_to_command(token, label_table, function_table) ==
    token_to_command_strict(token, label_table, function_table)

RECURSIVE SumOver(_, _)
SumOver(f, n) == IF n = 0 THEN 0 ELSE f[n] + SumOver(f, n - 1)

RECURSIVE MaxOver(_, _)
MaxOver(f, n) == IF n = 0 THEN 0 ELSE Max(f[n], MaxOver(f, n - 1))

\* lines 420-539: one tokenized function to a VMFunction
build_vmfunction(tokenized_func, function_table) ==
    LET tfo == TokenizedFunctionOptimized_from(tokenized_func)
    IN  IF ~tfo.ok THEN tfo
        ELSE LET first == tfo.commands[1]
                 rest  == Tail(tfo.commands)
                 conv  == [i \in 1..Len(rest) |->
                             token_to_command(rest[i], tfo.label_table, function_table)]
                 function_ref == function_table[first.name]
             IN  IF \E i \in 1..Len(rest) : ~conv[i].ok
                 THEN [ok |-> FALSE, err |-> "UnresolvedLabel"]
                 ELSE [ok |-> TRUE,
                       statics |-> MaxOver([i \in 1..Len(rest) |-> conv[i].statics], Len(rest)),
                       warnings |-> Cardinality({i \in 1..Len(rest) : conv[i].warn}),
                       func |-> [id |-> function_ref, name |-> first.name,
                                 num_locals |-> first.n,
                                 commands |-> <<[op |-> "Function", fn |-> function_ref,
                                                 n |-> first.n]>>
                                              \o [i \in 1..Len(rest) |-> conv[i].cmd]]]

\* lines 410-543: the files in order, with the running static_offset
RECURSIVE build_vmfiles(_, _, _, _, _)
build_vmfiles(tfiles, function_table, static_offset, files, warnings) ==
    IF tfiles = <<>> THEN [ok |-> TRUE, files |-> files, warnings |-> warnings]
    ELSE LET tf    == Head(tfiles)
             built == [j \in 1..Len(tf.functions) |->
                         build_vmfunction(tf.functions[j], function_table)]
         IN  IF \E j \in 1..Len(tf.functions) : ~built[j].ok
             THEN [ok |-> FALSE,
                   err |-> built[CHOOSE j \in 1..Len(tf.functions) :
                                   ~built[j].ok /\ \A k \in 1..(j - 1) : built[k].ok].err]
             ELSE LET num_statics == MaxOver([j \in 1..Len(built) |-> built[j].statics],
                                             Len(built))
                      vmfile == [name |-> tf.name,
                                 functions |-> [j \in 1..Len(built) |-> built[j].func],
                                 num_statics |-> num_statics,
                                 static_offset |-> static_offset]
                  IN  build_vmfiles(Tail(tfiles), function_table,
                                    static_offset + num_statics, Append(files, vmfile),
                                    warnings + SumOver([j \in 1..Len(built) |->
                                                          built[j].warnings], Len(built)))

\* the program of the files built, or the error of the build
VMProgram_of_files(built, function_table) ==
    IF ~built.ok THEN built
    ELSE [ok |-> TRUE, files |-> built.files, function_table |-> function_table,
          warnings |-> built.warnings]

\* the files built with the function table, or the error of the table
VMProgram_of_table(tokenized_files, table) ==
    IF ~table.ok THEN table
    ELSE VMProgram_of_files(build_vmfiles(tokenized_files, table.function_table,
                                          0, << >>, 0),
                            table.function_table)

\* the function table seeded with the intrinsics, then filled from the code
VMProgram_of_tokenized(tokenized_program, internal_funcs) ==
    IF ~tokenized_program.ok THEN tokenized_program
    ELSE VMProgram_of_table(tokenized_program.files,
                            build_function_table(DeclaredFunctions(tokenized_program.files),
                                                 seed_function_table(internal_funcs, << >>)))

VMProgram_with_internals(files, internal_funcs) ==
    VMProgram_of_tokenized(TokenizedProgram_from_files(files), internal_funcs)

(***************************************************************************)
(* vmparser.rs: the text of a token and the tokens of a text.  A text is   *)
(* a sequence of characters (strings of length one); a name or a word is   *)
(* a sequence of characters too.  No text below holds a carriage return.   *)
(***************************************************************************)
NEWLINE == "\n"

\* the White_Space characters that occur in the texts
WHITESPACE == {" ", "\t"}

DIGITS == <<"0", "1", "2", "3", "4", "5", "6", "7", "8", "9">>

\* the words parse_line and parse_segment match on
Spelling ==
    ("neg" :> <<"n", "e", "g">>) @@
    ("not" :> <<"n", "o", "t">>) @@
    ("add" :> <<"a", "d", "d">>) @@
    ("sub" :> <<"s", "u", "b">>) @@
    ("and" :> <<"a", "n", "d">>) @@
    ("or" :> <<"o", "r">>) @@
    ("eq" :> <<"e", "q">>) @@
    ("lt" :> <<"l", "t">>) @@
    ("gt" :> <<"g", "t">>) @@
    ("push" :> <<"p", "u", "s", "h">>) @@
    ("pop" :> <<"p", "o", "p">>) @@
    ("label" :> <<"l", "a", "b", "e", "l">>) @@
    ("if-goto" :> <<"i", "f", "-", "g", "o", "t", "o">>) @@
    ("goto" :> <<"g", "o", "t", "o">>) @@
    ("function" :> <<"f", "u", "n", "c", "t", "i", "o", "n">>) @@
    ("return" :> <<"r", "e", "t", "u", "r", "n">>) @@
    ("call" :> <<"c", "a", "l", "l">>) @@
    ("constant" :> <<"c", "o", "n", "s", "t", "a", "n", "t">>) @@
    ("argument" :> <<"a", "r", "g", "u", "m", "e", "n", "t">>) @@
    ("local" :> <<"l", "o", "c", "a", "l">>) @@
    ("static" :> <<"s", "t", "a", "t", "i", "c">>) @@
    ("this" :> <<"t", "h", "i", "s">>) @@
    ("that" :> <<"t", "h", "a", "t">>) @@
    ("pointer" :> <<"p", "o", "i", "n", "t", "e", "r">>) @@
    ("temp" :> <<"t", "e", "m", "p">>)

\* format!("{:?}", self) of the arithmetic tokens and of the segments
DebugName ==
    ("neg" :> <<"N", "e", "g">>) @@
    ("not" :> <<"N", "o", "t">>) @@
    ("add" :> <<"A", "d", "d">>) @@
    ("sub" :> <<"S", "u", "b">>) @@
    ("and" :> <<"A", "n", "d">>) @@
    ("or" :> <<"O", "r">>) @@
    ("eq" :> <<"E", "q">>) @@
    ("lt" :> <<"L", "t">>) @@
    ("gt" :> <<"G", "t">>) @@
    ("constant" :> <<"C", "o", "n", "s", "t", "a", "n", "t">>) @@
    ("argument" :> <<"A", "r", "g", "u", "m", "e", "n", "t">>) @@
    ("local" :> <<"L", "o", "c", "a", "l">>) @@
    ("static" :> <<"S", "t", "a", "t", "i", "c">>) @@
    ("this" :> <<"T", "h", "i", "s">>) @@
    ("that" :> <<"T", "h", "a", "t">>) @@
    ("pointer" :> <<"P", "o", "i", "n", "t", "e", "r">>) @@
    ("temp" :> <<"T", "e", "m", "p">>)

UpperToLower ==
    ("A" :> "a") @@ ("C" :> "c") @@ ("E" :> "e") @@ ("G" :> "g") @@ ("L" :> "l") @@ ("N" :> "n") @@ ("O" :> "o") @@ ("P" :> "p") @@ ("S" :> "s") @@ ("T" :> "t")

\* str::to_lowercase on the characters that occur in the names
to_lowercase(word) ==
    [i \in 1..Len(word) |->
       IF word[i] \in DOMAIN UpperToLower THEN UpperToLower[word[i]] ELSE word[i]]

\* the decimal text of a u16
RECURSIVE format_u16(_)
format_u16(n) ==
    IF n < 10 THEN <<DIGITS[n + 1]>> ELSE Append(format_u16(n \div 10), DIGITS[(n % 10) + 1])

DigitValue(c) == CHOOSE d \in 0..9 : DIGITS[d + 1] = c

\* the value of a run of digits, U16_MOD as soon as it passes the largest u16
RECURSIVE digits_value(_, _)
digits_value(digits, acc) ==
    IF digits = <<>> THEN acc
    ELSE IF acc * 10 + DigitValue(Head(digits)) >= U16_MOD THEN U16_MOD
    ELSE digits_value(Tail(digits), acc * 10 + DigitValue(Head(digits)))

\* str::parse::<u16>: an optional plus sign, then one digit or more, and no
\* value above 65535
parse_u16(word) ==
    LET digits == IF word # <<>> /\ word[1] = "+" THEN Tail(word) ELSE word
    IN  IF digits = <<>> \/ \E i \in 1..Len(digits) : \A d \in 1..10 : DIGITS[d] # digits[i]
        THEN [ok |-> FALSE]
        ELSE IF digits_value(digits, 0) >= U16_MOD THEN [ok |-> FALSE]
        ELSE [ok |-> TRUE, value |-> digits_value(digits, 0)]

Words(ws) == IF ws = <<>> THEN <<>> ELSE Head(ws) \o Concat([i \in 1..(Len(ws) - 1) |-> <<" ">> \o ws[i + 1]])

\* a Display that writes the segment as Debug does, with its capital
Segment_fmt_debug(segment) == DebugName[segment]

\* impl fmt::Display for Segment
Segment_fmt(segment) == to_lowercase(DebugName[segment])

\* impl fmt::Display for Token
Token_fmt(token) ==
    CASE token.op = "none" -> <<"<", "n", "o", "n", "e", ">">>
      [] token.op \in ArithOps -> to_lowercase(DebugName[token.op])
      [] token.op \in {"push", "pop"} ->
           Words(<<Spelling[token.op], Segment_fmt(token.seg), format_u16(token.idx)>>)
      [] token.op \in {"label", "if-goto", "goto"} ->
           Words(<<Spelling[token.op], token.name>>)
      [] token.op \in {"function", "call"} ->
           Words(<<Spelling[token.op], token.name, format_u16(token.n)>>)
      [] token.op = "return" -> Spelling["return"]

\* line.trim().split_whitespace(): the maximal runs without whitespace
RECURSIVE split_whitespace_from(_, _, _)
split_whitespace_from(line, word, parts) ==
    IF line = <<>> THEN (IF word = <<>> THEN parts ELSE Append(parts, word))
    ELSE IF Head(line) \in WHITESPACE
         THEN split_whitespace_from(Tail(line), <<>>,
                                    IF word = <<>> THEN parts ELSE Append(parts, word))
         ELSE split_whitespace_from(Tail(line), Append(word, Head(line)), parts)

split_whitespace(line) == split_whitespace_from(line, <<>>, <<>>)

ParseErr(why) == [ok |-> FALSE, err |-> why]

ParseOk(token) == [ok |-> TRUE, token |-> token]

NoToken == [op |-> "none"]

Is(word, keyword) == word = Spelling[keyword]

parse_segment(s) ==
    IF \E segment \in SEGMENTS : Is(s, segment)
    THEN [ok |-> TRUE, segment |-> CHOOSE segment \in SEGMENTS : Is(s, segment)]
    ELSE [ok |-> FALSE]

\* lines 85-166: the match on the first word of the line
parse_line_words(parts, line) ==
    IF parts = <<>> THEN ParseOk(NoToken)
    ELSE LET command == parts[1]
         IN  CASE command = <<"/", "/">> -> ParseOk(NoToken)
               [] \E o \in ArithOps : Is(command, o) ->
                    ParseOk(Arith(CHOOSE o \in ArithOps : Is(command, o)))
               [] \E k \in {"label", "if-goto", "goto"} : Is(command, k) ->
                    IF Len(parts) < 2 THEN ParseErr("MissingLabel")
                    ELSE ParseOk([op |-> CHOOSE k \in {"label", "if-goto", "goto"} :
                                           Is(command, k),
                                  name |-> parts[2]])
               [] \E k \in {"push", "pop"} : Is(command, k) ->
                    IF Len(parts) < 2 THEN ParseErr("MissingSegment")
                    ELSE IF Len(parts) < 3 THEN ParseErr("MissingIndex")
                    ELSE IF ~parse_segment(parts[2]).ok THEN ParseErr("InvalidSegment")
                    ELSE IF ~parse_u16(parts[3]).ok THEN ParseErr("InvalidIndex")
                    ELSE ParseOk([op |-> CHOOSE k \in {"push", "pop"} : Is(command, k),
                                  seg |-> parse_segment(parts[2]).segment,
                                  idx |-> parse_u16(parts[3]).value])
               [] Is(command, "return") -> ParseOk(Return)
               [] \E k \in {"function", "call"} : Is(command, k) ->
                    IF Len(parts) < 2 THEN ParseErr("MissingFunctionName")
                    ELSE IF Len(parts) < 3 THEN ParseErr("MissingArg2")
                    ELSE IF ~parse_u16(parts[3]).ok THEN ParseErr("InvalidNum")
                    ELSE ParseOk([op |-> CHOOSE k \in {"function", "call"} : Is(command, k),
                                  name |-> parts[2], n |-> parse_u16(parts[3]).value])
               [] OTHER -> ParseErr("CouldNotParseLine")

\* parse_line with the match on any first word that starts with two slashes
parse_line_comment_prefix(line) ==
    LET parts == split_whitespace(line)
    IN  IF parts # <<>> /\ Len(parts[1]) >= 2 /\ SubSeq(parts[1], 1, 2) = <<"/", "/">>
        THEN ParseOk(NoToken)
        ELSE parse_line_words(parts, line)

\* parse_line
parse_line(line) == parse_line_words(split_whitespace(line), line)

\* str::lines: the text cut at every newline, without a last empty line
RECURSIVE lines(_)
lines(text) ==
    IF text = <<>> THEN <<>>
    ELSE LET ends == {i \in 1..Len(text) : text[i] = NEWLINE}
             n    == IF ends = {} THEN Len(text) + 1
                     ELSE CHOOSE i \in ends : \A j \in ends : i <= j
         IN  <<SubSeq(text, 1, n - 1)>> \o lines(SubSeq(text, n + 1, Len(text)))

(***************************************************************************)
(* fun/src/compiler.rs: the compiler from a module (its syntax tree) to a  *)
(* token stream.  Identifiers and names are sequences of characters.  A    *)
(* result is [res, tokens, names]: res is "ok", "err" (the Err of the      *)
(* source) or "panic" (a panic!, todo! or failed expect).                  *)
(***************************************************************************)
THIS_WORD == <<"t", "h", "i", "s">>

NEW_WORD == <<"n", "e", "w">>

MEMORY_ALLOC == <<"M", "e", "m", "o", "r", "y", ".", "a", "l", "l", "o", "c">>

WHILE_LABEL == <<"W", "H", "I", "L", "E">>

WHILE_END_LABEL == <<"W", "H", "I", "L", "E", "_", "E", "N", "D">>

BUILT_IN_TYPES == <<<<"n", "u", "m", "b", "e", "r">>, <<"b", "o", "o", "l">>>>

\* format!("{}.{}", class_name, func_name)
QualifiedName(class_name, func_name) == class_name \o <<".">> \o func_name

\* the syntax tree (ast.rs)
FieldDecl(scope, name, type_name) == [scope |-> scope, name |-> name, type_name |-> type_name]

Parameter(name, type_name) == [name |-> name, type_name |-> type_name]

MethodDecl(scope, name, parameters, type_name, block) ==
    [scope |-> scope, name |-> name, parameters |-> parameters, type_name |-> type_name,
     block |-> block]

ClassDecl(name, fields, methods, constructor) ==
    [name |-> name, fields |-> fields, methods |-> methods, constructor |-> constructor]

Number(num) == [term |-> "Number", num |-> num]

Identifier(name) == [term |-> "Identifier", name |-> name]

BinaryOp(o, left, right) == [term |-> "BinaryOp", op |-> o, left |-> left, right |-> right]

New(class_name, arguments) ==
    [term |-> "New", class_name |-> class_name, arguments |-> arguments]

TermCall(func_name, arguments) ==
    [term |-> "Call", func_name |-> func_name, arguments |-> arguments]

ReturnStatement(expr) == [statement |-> "Return", expr |-> expr]

LetStatement(name, type_name, value_expr) ==
    [statement |-> "Let", name |-> name, type_name |-> type_name, value_expr |-> value_expr]

WhileStatement(condition_expr, block) ==
    [statement |-> "While", condition_expr |-> condition_expr, block |-> block]

AssignmentStatement(dest_expr, value_expr) ==
    [statement |-> "Assignment", dest_expr |-> dest_expr, value_expr |-> value_expr]

COk(toks, names) == [res |-> "ok", tokens |-> toks, names |-> names]

CErr(why) == [res |-> "err", why |-> why]

CPanic == [res |-> "panic", why |-> "panic"]

MemRef(segment, index, type_id) == [segment |-> segment, index |-> index, type_id |-> type_id]

\* num as u16, index as u16
AsU16(n) == n % U16_MOD

as_pop_token(mem_ref) == Pop(mem_ref.segment, AsU16(mem_ref.index))

as_push_token(mem_ref) == Push(mem_ref.segment, AsU16(mem_ref.index))

\* Namespace: a function from the names to their MemRef; lines 17-22
segment_size(names, segment) == Cardinality({n \in DOMAIN names : names[n].segment = segment})

register(names, name, segment, type_id) ==
    IF name \in DOMAIN names THEN [some |-> FALSE, names |-> names]
    ELSE [some |-> TRUE, index |-> segment_size(names, segment),
          names |-> names @@ (name :> MemRef(segment, segment_size(names, segment), type_id))]

\* OrderedMap: a sequence of [key, value]; the index of a key counts from 0
index_of(items, key) ==
    IF \E i \in 1..Len(items) : items[i].key = key
    THEN [some |-> TRUE, index |-> (CHOOSE i \in 1..Len(items) : items[i].key = key) - 1]
    ELSE [some |-> FALSE]

\* ModuleCompiler::resolve_type over the object types m.object_types
resolve_type(m, type_name) == index_of(m.object_types, type_name)

\* ObjectType::get_field of the type with the id
get_field(m, type_id, field_name) == index_of(m.object_types[type_id + 1].value, field_name)

\* StaticsTable::get
get_static_field(m, class_name, field_name) ==
    IF <<class_name, field_name>> \in DOMAIN m.static_names
    THEN [some |-> TRUE, mem_ref |-> m.static_names[<<class_name, field_name>>]]
    ELSE [some |-> FALSE]

\* the ? of the source: a result that is not Ok ends the function with it
AndThen(r, next(_)) == IF r.res # "ok" THEN r ELSE next(r)

\* the tokens of the operators compile_binary_op knows
OpTokens == [Plus |-> "add", Sub |-> "sub", Lt |-> "lt", Gt |-> "gt", Eq |-> "eq"]

RECURSIVE compile_term(_, _, _)
RECURSIVE compile_arguments(_, _, _)

\* lines 583-598: the arguments in order, then the call
compile_call(c, names, class_name, func_name, arguments) ==
    AndThen(compile_arguments(c, names, arguments),
            LAMBDA args :
              COk(Append(args.tokens,
                         Call(QualifiedName(class_name, func_name), AsU16(Len(arguments)))),
                  names))

\* lines 633-664: a field of the object a local or an argument points to
compile_field_of(c, names, left_mem_ref, field) ==
    IF ~field.some THEN CErr("Field does not exist")
    ELSE COk(<<as_push_token(left_mem_ref), Pop("pointer", 1),
               Push("that", AsU16(field.index))>>, names)

\* lines 669-681: a static field of a class
compile_static_field(names, static_field) ==
    IF static_field.some THEN COk(<<as_push_token(static_field.mem_ref)>>, names)
    ELSE CPanic

\* lines 600-691
compile_dot_op(c, names, left, right) ==
    IF left.term # "Identifier" THEN CPanic
    ELSE IF left.name = THIS_WORD
    THEN IF right.term # "Identifier" THEN CPanic
         ELSE IF right.name \in DOMAIN c.instance_names
         THEN COk(<<as_push_token(c.instance_names[right.name])>>, names)
         ELSE CErr("instance field has not been declared")
    ELSE IF left.name \in DOMAIN names
    THEN IF right.term # "Identifier" THEN CPanic
         ELSE compile_field_of(c, names, names[left.name],
                               get_field(c.module, names[left.name].type_id, right.name))
    ELSE CASE right.term = "Identifier" ->
                compile_static_field(names,
                                     get_static_field(c.module, left.name, right.name))
           [] right.term = "Call" ->
                compile_call(c, names, left.name, right.func_name, right.arguments)
           [] OTHER -> CPanic

\* lines 693-709
compile_binary_op(c, names, o, left, right) ==
    IF o = "Dot" THEN compile_dot_op(c, names, left, right)
    ELSE AndThen(compile_term(c, names, left),
           LAMBDA l :
             AndThen(compile_term(c, names, right),
               LAMBDA r :
                 IF o \notin DOMAIN OpTokens THEN CPanic
                 ELSE COk(l.tokens \o r.tokens \o <<Arith(OpTokens[o])>>, names)))

\* lines 563-571
compile_reference(c, names, reference) ==
    IF reference \in DOMAIN names THEN COk(<<as_push_token(names[reference])>>, names)
    ELSE CErr("variable has not been declared with a let statement")

\* lines 573-581
compile_term(c, names, term) ==
    CASE term.term = "Number" -> COk(<<Push("constant", AsU16(term.num))>>, names)
      [] term.term = "BinaryOp" -> compile_binary_op(c, names, term.op, term.left, term.right)
      [] term.term = "Identifier" -> compile_reference(c, names, term.name)
      [] term.term = "New" -> compile_call(c, names, term.class_name, NEW_WORD, term.arguments)
      [] OTHER -> CPanic

\* lines 589-592: the arguments of a call in order
compile_arguments(c, names, arguments) ==
    IF arguments = << >> THEN COk(<< >>, names)
    ELSE AndThen(compile_term(c, names, Head(arguments)),
           LAMBDA first :
             AndThen(compile_arguments(c, names, Tail(arguments)),
               LAMBDA rest : COk(first.tokens \o rest.tokens, names)))

\* lines 711-713
compile_expression(c, names, expression) == compile_term(c, names, expression)

\* lines 458-468: the value and the pop to the local of the index
compile_let_value(c, let_statement, index) ==
    IF ~index.some THEN CErr("a variable with the name has already been declared")
    ELSE AndThen(compile_expression(c, index.names, let_statement.value_expr),
           LAMBDA value :
             COk(Append(value.tokens, Pop("local", AsU16(index.index))), index.names))

\* lines 451-457: the type is resolved and the name registered before the
\* value is compiled
compile_let_registered(c, names, let_statement, type_id) ==
    IF ~type_id.some THEN CErr("is not a known type")
    ELSE compile_let_value(c, let_statement,
                           register(names, let_statement.name, "local", type_id.index))

\* lines 451-469
compile_let_statement(c, names, let_statement) ==
    compile_let_registered(c, names, let_statement,
                           resolve_type(c.module, let_statement.type_name))

\* lines 476-517: the pop to the destination of an assignment
assignment_pop_token(c, names, dest) ==
    CASE dest.term = "BinaryOp" /\ dest.op = "Dot" ->
           IF dest.left.term # "Identifier" \/ dest.right.term # "Identifier"
           THEN CPanic
           ELSE IF dest.left.name = THIS_WORD
           THEN IF dest.right.name \in DOMAIN c.instance_names
                THEN COk(<<as_pop_token(c.instance_names[dest.right.name])>>, names)
                ELSE CErr("instance field is not declared")
           ELSE IF <<dest.left.name, dest.right.name>> \in DOMAIN c.module.static_names
           THEN COk(<<as_pop_token(c.module.static_names[<<dest.left.name,
                                                           dest.right.name>>])>>, names)
           ELSE CPanic
      [] dest.term = "Identifier" ->
           IF dest.name \in DOMAIN names
           THEN COk(<<as_pop_token(names[dest.name])>>, names)
           ELSE CErr("variable has never been declared")
      [] OTHER -> CPanic

\* lines 471-520: the value first, then the pop to the destination
compile_assignment_statement(c, names, assignment_statement) ==
    AndThen(compile_expression(c, names, assignment_statement.value_expr),
      LAMBDA value :
        AndThen(assignment_pop_token(c, names, assignment_statement.dest_expr),
          LAMBDA pop_token : COk(value.tokens \o pop_token.tokens, names)))

RECURSIVE compile_block(_, _, _)

\* lines 522-536: every while statement gets the same two labels
compile_while_statement(c, names, while_statement) ==
    LET start_label == WHILE_LABEL
        end_label   == WHILE_END_LABEL
    IN  AndThen(compile_expression(c, names, while_statement.condition_expr),
          LAMBDA condition :
            AndThen(compile_block(c, names, while_statement.block),
              LAMBDA block :
                COk(<<Label(start_label)>> \o condition.tokens
                    \o <<Arith("not"), IfGoto(end_label)>> \o block.tokens
                    \o <<Goto(start_label), Label(end_label)>>,
                    block.names)))

\* lines 541-558: one statement of a block
compile_statement(c, names, statement) ==
    CASE statement.statement = "Return" ->
           AndThen(compile_expression(c, names, statement.expr),
                   LAMBDA value : COk(Append(value.tokens, Return), names))
      [] statement.statement = "Let" -> compile_let_statement(c, names, statement)
      [] statement.statement = "While" -> compile_while_statement(c, names, statement)
      [] statement.statement = "Assignment" ->
           compile_assignment_statement(c, names, statement)
      [] OTHER -> CPanic

\* lines 538-561: the statements in order, the names carried along
compile_block(c, names, statements) ==
    IF statements = << >> THEN COk(<< >>, names)
    ELSE AndThen(compile_statement(c, names, Head(statements)),
           LAMBDA first :
             AndThen(compile_block(c, first.names, Tail(statements)),
               LAMBDA rest : COk(first.tokens \o rest.tokens, rest.names)))

RECURSIVE register_parameters(_, _, _)

\* lines 400-406: one parameter; if its name is taken the names stay as
\* they are, the result of register is not looked at
register_parameter(c, names, parameter, type_id, parameters) ==
    IF ~type_id.some THEN CErr("is not a known type")
    ELSE register_parameters(c,
             register(names, parameter.name, "argument", type_id.index).names,
             parameters)

\* lines 400-406: the parameters in order
register_parameters(c, names, parameters) ==
    IF parameters = << >> THEN COk(<< >>, names)
    ELSE register_parameter(c, names, Head(parameters),
                            resolve_type(c.module, Head(parameters).type_name),
                            Tail(parameters))

\* lines 399-412: the tokens of the block and the number of locals
start_method(c, method) ==
    AndThen(register_parameters(c, << >>, method.parameters),
      LAMBDA parameters :
        AndThen(compile_block(c, parameters.names, method.block),
          LAMBDA block :
            [res |-> "ok", tokens |-> block.tokens, names |-> block.names,
             num_locals |-> segment_size(block.names, "local")]))

\* lines 322-324
get_num_instance_fields(c) == segment_size(c.instance_names, "this")

\* lines 414-430
compile_constructor(c, constructor) ==
    AndThen(start_method(c, constructor),
      LAMBDA started :
        COk(<<Function(QualifiedName(c.class_name, NEW_WORD), AsU16(started.num_locals)),
              Push("constant", AsU16(get_num_instance_fields(c))),
              Call(MEMORY_ALLOC, 1),
              Pop("pointer", 0)>>
            \o started.tokens
            \o <<Push("pointer", 0), Return>>, started.names))

\* lines 432-449
compile_method(c, method) ==
    AndThen(start_method(c, method),
      LAMBDA started :
        COk(<<Function(QualifiedName(c.class_name, method.name),
                       AsU16(started.num_locals))>>
            \o (IF method.scope = "Instance"
                THEN <<Push("argument", 0), Pop("pointer", 0)>> ELSE << >>)
            \o started.tokens, started.names))

RECURSIVE register_instance_fields(_, _, _)

\* lines 346-348: the index register returned
register_instance_field(m, index, fields) ==
    IF ~index.some THEN CErr("Instance field declared twice")
    ELSE register_instance_fields(m, index.names, fields)

\* lines 338-345: one instance field of a resolved type
register_instance_field_of_type(m, instance_names, field, type_id, fields) ==
    IF ~type_id.some THEN CErr("is not a known type")
    ELSE register_instance_field(m, register(instance_names, field.name, "this",
                                             type_id.index), fields)

\* lines 331-350: the instance fields in source order, in the segment this
register_instance_fields(m, instance_names, fields) ==
    IF fields = << >> THEN COk(<< >>, instance_names)
    ELSE IF Head(fields).scope = "Static"
    THEN register_instance_fields(m, instance_names, Tail(fields))
    ELSE register_instance_field_of_type(m, instance_names, Head(fields),
             resolve_type(m, Head(fields).type_name), Tail(fields))

RECURSIVE compile_methods(_, _)

\* lines 355-357
compile_methods(c, methods) ==
    IF methods = << >> THEN COk(<< >>, << >>)
    ELSE AndThen(compile_method(c, Head(methods)),
           LAMBDA first :
             AndThen(compile_methods(c, Tail(methods)),
               LAMBDA rest : COk(first.tokens \o rest.tokens, << >>)))

\* lines 351-359: the constructor first, then the methods
compile_members(c, class_decl) ==
    AndThen(IF class_decl.constructor = << >> THEN COk(<< >>, << >>)
            ELSE compile_constructor(c, class_decl.constructor[1]),
      LAMBDA made :
        AndThen(compile_methods(c, class_decl.methods),
          LAMBDA rest : COk(made.tokens \o rest.tokens, << >>)))

\* lines 330-360
ClassDeclCompiler_compile(m, class_decl) ==
    AndThen(register_instance_fields(m, << >>, class_decl.fields),
      LAMBDA instance_names :
        compile_members([module |-> m, class_name |-> class_decl.name,
                         instance_names |-> instance_names.names], class_decl))

RECURSIVE add_types(_, _)

\* lines 243-251: ObjectTypeTable::add_type for each name
add_types(object_types, type_names) ==
    IF type_names = << >> THEN [ok |-> TRUE, items |-> object_types]
    ELSE IF index_of(object_types, Head(type_names)).some
    THEN [ok |-> FALSE, items |-> object_types]
    ELSE add_types(Append(object_types, [key |-> Head(type_names), value |-> << >>]),
                   Tail(type_names))

\* lines 173-199: StaticsTable::insert, the former entry in existing
StaticsTable_insert(m, class_name, field_name, type_id) ==
    IF <<class_name, field_name>> \in DOMAIN m.static_names
    THEN [existing |-> TRUE,
          module |-> [m EXCEPT !.static_names =
                        [k \in DOMAIN m.static_names |->
                           IF k = <<class_name, field_name>>
                           THEN MemRef("static", m.index, type_id)
                           ELSE m.static_names[k]]]]
    ELSE [existing |-> FALSE,
          module |-> [m EXCEPT !.static_names = m.static_names
                                    @@ (<<class_name, field_name>>
                                          :> MemRef("static", m.index, type_id)),
                               !.index = m.index + 1]]

\* lines 127-133: ObjectType::add_field of the type at a place of the table
add_field_at(m, at, name, type_id) ==
    IF index_of(m.object_types[at].value, name).some THEN [ok |-> FALSE, module |-> m]
    ELSE [ok |-> TRUE,
          module |-> [m EXCEPT !.object_types[at].value =
                        Append(m.object_types[at].value,
                               [key |-> name,
                                value |-> [type_id |-> type_id,
                                           index |-> Len(m.object_types[at].value)]])]]

\* lines 267-273: the object type of the class gets the field
add_field(m, class_name, name, type_id) ==
    add_field_at(m, index_of(m.object_types, class_name).index + 1, name, type_id)

\* lines 259-266: a static field
declare_static_field(inserted) ==
    IF inserted.existing THEN [res |-> "err", why |-> "Static field declared twice"]
    ELSE [res |-> "ok", module |-> inserted.module]

\* lines 267-274: an instance field
declare_instance_field(added) ==
    IF ~added.ok THEN [res |-> "err", why |-> "field already declared"]
    ELSE [res |-> "ok", module |-> added.module]

\* lines 254-276 for a field of a resolved type: static fields of the
\* statics table and instance fields of the object type are told apart by
\* the scope
declare_field_of_type(m, class_name, field, type_id) ==
    IF ~type_id.some THEN [res |-> "err", why |-> "is not a known type"]
    ELSE IF field.scope = "Static"
    THEN declare_static_field(StaticsTable_insert(m, class_name, field.name, type_id.index))
    ELSE declare_instance_field(add_field(m, class_name, field.name, type_id.index))

\* lines 254-276
declare_field(m, class_name, field) ==
    declare_field_of_type(m, class_name, field, resolve_type(m, field.type_name))

RECURSIVE declare_fields(_, _, _)

\* lines 253-277: the fields of one class in source order
declare_fields(m, class_name, fields) ==
    IF fields = << >> THEN [res |-> "ok", module |-> m]
    ELSE AndThen(declare_field(m, class_name, Head(fields)),
                 LAMBDA first : declare_fields(first.module, class_name, Tail(fields)))

RECURSIVE declare_classes(_, _)

\* lines 252-278
declare_classes(m, classes) ==
    IF classes = << >> THEN [res |-> "ok", module |-> m]
    ELSE AndThen(declare_fields(m, Head(classes).name, Head(classes).fields),
                 LAMBDA first : declare_classes(first.module, Tail(classes)))

RECURSIVE compile_classes(_, _)

\* lines 280-290
compile_classes(m, classes) ==
    IF classes = << >> THEN COk(<< >>, << >>)
    ELSE AndThen(ClassDeclCompiler_compile(m, Head(classes)),
           LAMBDA first :
             AndThen(compile_classes(m, Tail(classes)),
               LAMBDA rest : COk(first.tokens \o rest.tokens, << >>)))

\* lines 252-290: with the types added, the fields, then the classes
compile_with_types(types, classes) ==
    IF ~types.ok THEN CErr("Type already declared")
    ELSE AndThen(declare_classes([object_types |-> types.items,
                                  static_names |-> << >>, index |-> 0], classes),
                 LAMBDA declared : compile_classes(declared.module, classes))

\* lines 241-291: the tokens of a module, or its error
ModuleCompiler_compile(classes) ==
    compile_with_types(add_types(<< >>, BUILT_IN_TYPES
                                          \o [i \in 1..Len(classes) |-> classes[i].name]),
                       classes)

(***************************************************************************)
(* State.                                                                  *)
(*   input       what the host builds the program from: the token list    *)
(*               of each file and the intrinsic table                     *)
(*   program     VMProgram::with_internals(input), or its error           *)
(*   ram         VMEmulator.ram; a cell that is absent from the function  *)
(*               holds 0, so the 24577 cells are kept without storing     *)
(*               the zeros                                                *)
(*   call_stack  VMEmulator.call_stack; a frame is [function, index,      *)
(*               num_args, stack_size] (local_segment is never used)      *)
(*   step_counter VMEmulator.step_counter                                 *)
(*   op, result  the host call made last and what it returned             *)
(*   prev        ram, call_stack and step_counter before the last call   *)
(*   calls       history: per frame, what exec_call saved when it created *)
(*               the frame                                                *)
(*   host_calls  how many init, run and reset calls the host has made     *)
(***************************************************************************)
VARIABLES input, program, ram, call_stack, step_counter, op, result, prev, calls,
          host_calls

\* the emulator and its program
emulator_vars == <<input, program, ram, call_stack, step_counter, op, result, prev, calls,
                   host_calls>>

(***************************************************************************)
(* The state of a file that is written and read back.                      *)
(*   stream      the tokens write_to_dir has to write                      *)
(*   written     how many of them it has written                           *)
(*   text        the characters of the file                                *)
(*   line_index  how many lines of the text parse_lines has consumed       *)
(*   tokens_read the tokens parse_lines has collected                      *)
(*   parsed      "writing", "parsing", then "ok" or the error of a line    *)
(***************************************************************************)
VARIABLES stream, written, text, line_index, tokens_read, parsed

parser_vars == <<stream, written, text, line_index, tokens_read, parsed>>

\* the compiler: the module given to it (its classes) and what it returned
VARIABLES module, compiled

compiler_vars == <<module, compiled>>

\* the run of the program the x86-64 back end compiled:
\*   status  "none", "running", "returned" or "undefined"
\*   pc      the position, in the tokens of the function, of the next one
\*   stack   what the code pushed in its frame
\*   temp    the quadwords of RAM + 5*8 .. RAM + 12*8
\*   rax     the register that carries the return code
\*   last    the command executed last, the value it popped and whether it
\*           jumped
\*   tested  the values the if-gotos popped so far
VARIABLES native

native_vars == <<native>>

vars == <<emulator_vars, parser_vars, compiler_vars, native_vars>>

(***************************************************************************)
(* vmemulator.rs: RAM and the casts of cells to addresses.                 *)
(***************************************************************************)
Read(r, a) == IF a \in DOMAIN r THEN r[a] ELSE 0

Write(r, a, v) ==
    IF v = 0 THEN [x \in (DOMAIN r) \ {a} |-> r[x]]
    ELSE [x \in (DOMAIN r) \cup {a} |-> IF x = a THEN v ELSE r[x]]

\* `as usize` of a negative i32 sign-extends to an address far beyond the
\* RAM, so every slice that starts or ends there aborts; a cell that is used
\* as an address is usable only when it is not negative
Addressable(x) == x >= 0

\* &self.ram[start..end] aborts unless start <= end <= len
SliceOk(start, end) == start <= end /\ end <= RAM_SIZE

\* what an operation leaves: the emulator state m = [ram, call_stack], how it
\* ended ("ok", "halt", "err" for an Err(..) value, "panic" for an abort),
\* the value it returned and, for an Err, which one
Out(m, res, val) == [m |-> m, res |-> res, val |-> val, why |-> ""]

ErrOut(m, why) == [m |-> m, res |-> "err", val |-> 0, why |-> why]

Top(cs) == cs[Len(cs)]

SetTop(cs, f) == [cs EXCEPT ![Len(cs)] = f]

new_frame(function, num_args) ==
    [function |-> function, index |-> 0, num_args |-> num_args, stack_size |-> 0]

get_vmfunction(func_ref) ==
    program.files[func_ref.file_index + 1].functions[func_ref.function_index + 1]

\* the file of the first function of the program, whatever function runs
get_file_of_first(func_ref) == program.files[1]

get_file(func_ref) == program.files[func_ref.file_index + 1]

\* whether get_command's three indexings stay in range (they abort otherwise)
CommandInRange(func_ref, index) ==
    /\ func_ref.file_index < Len(program.files)
    /\ func_ref.function_index < Len(program.files[func_ref.file_index + 1].functions)
    /\ index < Len(get_vmfunction(func_ref).commands)

get_command(func_ref, index) == get_vmfunction(func_ref).commands[index + 1]

\* VMProgram::get_function_ref: only an InCode entry is returned
get_function_ref(name) ==
    IF name \in DOMAIN program.function_table /\ program.function_table[name].kind = "InCode"
    THEN [some |-> TRUE, ref |-> program.function_table[name]]
    ELSE [some |-> FALSE]

(***************************************************************************)
(* vmemulator.rs: the global stack and the frame's operand stack.          *)
(***************************************************************************)
push_global_stack(m, value) ==
    LET sp1  == Read(m.ram, SP) + 1
        ram1 == Write(m.ram, SP, sp1)
    IN  IF ~Addressable(sp1) \/ ~SliceOk(STACK_BASE, sp1) THEN Out(m, "panic", 0)
        ELSE IF sp1 > STACK_BASE
             THEN Out([m EXCEPT !.ram = Write(ram1, sp1 - 1, value)], "ok", 0)
             ELSE Out([m EXCEPT !.ram = ram1], "ok", 0)

pop_global_stack(m) ==
    IF Read(m.ram, SP) <= STACK_BASE THEN ErrOut(m, "GlobalStackEmpty")
    ELSE LET sp1 == Read(m.ram, SP) - 1
         IN  IF sp1 >= RAM_SIZE THEN Out(m, "panic", 0)
             ELSE Out([m EXCEPT !.ram = Write(m.ram, SP, sp1)], "ok", Read(m.ram, sp1))

pop_stack(m) ==
    IF Top(m.call_stack).stack_size > 0
    THEN pop_global_stack(
           [m EXCEPT !.call_stack =
              SetTop(m.call_stack, [Top(m.call_stack) EXCEPT !.stack_size = @ - 1])])
    ELSE ErrOut(m, "LocalStackEmpty")

push_stack(m, value) ==
    push_global_stack(
      [m EXCEPT !.call_stack =
         SetTop(m.call_stack, [Top(m.call_stack) EXCEPT !.stack_size = @ + 1])],
      value)

(***************************************************************************)
(* vmemulator.rs: segments.                                                *)
(***************************************************************************)
\* [ok, start, end]; ok = FALSE where the source aborts or where the base
\* cell is negative (the slice made from the bounds then aborts)
get_segment_bounds(m, segment) ==
    CASE segment = "static" ->
           LET vmfile == get_file(Top(m.call_stack).function)
               start  == STATIC_BASE + vmfile.static_offset
           IN  [ok |-> TRUE, start |-> start, end |-> start + vmfile.num_statics]
      [] segment = "pointer" -> [ok |-> TRUE, start |-> THIS, end |-> THAT + 1]
      [] segment = "temp" -> [ok |-> TRUE, start |-> TEMP_BASE, end |-> TEMP_BASE + TEMP_LEN]
      [] segment = "this" ->
           [ok |-> Addressable(Read(m.ram, THIS)), start |-> Read(m.ram, THIS),
            end |-> RAM_SIZE]
      [] segment = "that" ->
           [ok |-> Addressable(Read(m.ram, THAT)), start |-> Read(m.ram, THAT),
            end |-> RAM_SIZE]
      [] segment = "local" ->
           LET start == Read(m.ram, LCL)
               end   == start + get_vmfunction(Top(m.call_stack).function).num_locals
           IN  [ok |-> Addressable(start), start |-> start, end |-> end]
      [] segment = "argument" ->
           LET start == Read(m.ram, ARG)
           IN  [ok |-> Addressable(start), start |-> start,
                end |-> start + Top(m.call_stack).num_args]
      [] segment = "constant" -> [ok |-> FALSE, start |-> 0, end |-> 0]

\* the address of get_segment(segment)[index], or the abort of the slicing
\* or of the indexing
segment_address(m, segment, index) ==
    LET b == get_segment_bounds(m, segment)
    IN  IF b.ok /\ SliceOk(b.start, b.end) /\ index < b.end - b.start
        THEN [ok |-> TRUE, addr |-> b.start + index]
        ELSE [ok |-> FALSE, addr |-> 0]

\* the value a push or a copy reads: [ok, value]
source_value(m, segment, index) ==
    IF segment = "constant" THEN [ok |-> TRUE, value |-> index]
    ELSE LET a == segment_address(m, segment, index)
         IN  IF a.ok THEN [ok |-> TRUE, value |-> Read(m.ram, a.addr)]
             ELSE [ok |-> FALSE, value |-> 0]

exec_push(m, segment, index) ==
    LET v == source_value(m, segment, index)
    IN  IF v.ok THEN push_stack(m, v.value) ELSE Out(m, "panic", 0)

exec_pop(m, segment, index) ==
    LET p == pop_stack(m)
    IN  IF p.res # "ok" THEN p
        ELSE LET a == segment_address(p.m, segment, index)
             IN  IF a.ok THEN Out([p.m EXCEPT !.ram = Write(p.m.ram, a.addr, p.val)], "ok", 0)
                 ELSE Out(p.m, "panic", 0)

\* exec_copy_seg indexing the destination with the index of the source
exec_copy_seg_to_from_index(m, from_segment, from_index, to_segment, to_index) ==
    LET v == source_value(m, from_segment, from_index)
    IN  IF ~v.ok THEN Out(m, "panic", 0)
        ELSE LET a == segment_address(m, to_segment, from_index)
             IN  IF a.ok THEN Out([m EXCEPT !.ram = Write(m.ram, a.addr, v.value)], "ok", 0)
                 ELSE Out(m, "panic", 0)

exec_copy_seg(m, from_segment, from_index, to_segment, to_index) ==
    LET v == source_value(m, from_segment, from_index)
    IN  IF ~v.ok THEN Out(m, "panic", 0)
        ELSE LET a == segment_address(m, to_segment, to_index)
             IN  IF a.ok THEN Out([m EXCEPT !.ram = Write(m.ram, a.addr, v.value)], "ok", 0)
                 ELSE Out(m, "panic", 0)

(***************************************************************************)
(* vmemulator.rs: intrinsics, call, return, arithmetic.                    *)
(***************************************************************************)
\* i32 division truncates toward zero
TruncDiv(b, a) ==
    IF (b >= 0) = (a > 0) THEN (IF b >= 0 THEN b ELSE -b) \div (IF a > 0 THEN a ELSE -a)
    ELSE -((IF b >= 0 THEN b ELSE -b) \div (IF a > 0 THEN a ELSE -a))

exec_internal(m, internal_id, num_args) ==
    IF internal_id \notin {0, 1} \/ num_args # 2 THEN Out(m, "panic", 0)
    ELSE LET pa == pop_stack(m)
         IN  IF pa.res # "ok" THEN pa
             ELSE LET pb == pop_stack(pa.m)
                  IN  IF pb.res # "ok" THEN pb
                      ELSE IF internal_id = 0
                           THEN IF pa.val = 0 THEN Out(pb.m, "panic", 0)
                                ELSE push_stack(pb.m, TruncDiv(pb.val, pa.val))
                           ELSE push_stack(pb.m, pb.val * pa.val)

RECURSIVE push_stack_all(_, _)
push_stack_all(m, values) ==
    IF values = <<>> THEN Out(m, "ok", 0)
    ELSE LET p == push_stack(m, Head(values))
         IN  IF p.res # "ok" THEN p ELSE push_stack_all(p.m, Tail(values))

exec_call(m, function_ref, num_args) ==
    LET p == push_stack_all(m, <<Top(m.call_stack).index + 1, Read(m.ram, LCL),
                                 Read(m.ram, ARG), Read(m.ram, THIS), Read(m.ram, THAT)>>)
    IN  IF p.res # "ok" THEN p
        ELSE LET sp   == Read(p.m.ram, SP)
                 ram1 == Write(p.m.ram, ARG, sp - SAVED_CELLS - num_args)
                 ram2 == Write(ram1, LCL, sp)
             IN  Out([ram |-> ram2,
                      call_stack |-> Append(p.m.call_stack, new_frame(function_ref, num_args))],
                     "ok", 0)

\* lines 328-332: pop THAT, THIS, ARG, LCL into their cells, then pop the
\* return index (the value of the last pop is returned and then dropped)
RECURSIVE restore_frame(_, _)
restore_frame(m, cells) ==
    LET p == pop_global_stack(m)
    IN  IF p.res # "ok" \/ cells = <<>> THEN p
        ELSE restore_frame([p.m EXCEPT !.ram = Write(p.m.ram, Head(cells), p.val)],
                           Tail(cells))

\* exec_return placing the result one cell above the first argument
exec_return_above_arguments(m) ==
    LET pr == pop_stack(m)
    IN  IF pr.res # "ok" THEN pr
        ELSE LET arg == Read(pr.m.ram, ARG)
                 m1  == [pr.m EXCEPT !.ram = Write(pr.m.ram, SP, Read(pr.m.ram, LCL))]
                 rf  == restore_frame(m1, <<THAT, THIS, ARG, LCL>>)
             IN  IF rf.res # "ok" THEN rf
                 ELSE LET m2 == [rf.m EXCEPT !.ram = Write(rf.m.ram, SP, arg + 1)]
                          pg == push_global_stack(m2, pr.val)
                      IN  IF pg.res # "ok" THEN pg
                          ELSE LET cs == SubSeq(pg.m.call_stack, 1, Len(pg.m.call_stack) - 1)
                               IN  Out([ram |-> pg.m.ram,
                                        call_stack |-> SetTop(cs, [Top(cs) EXCEPT !.index = @ + 1])],
                                       "ok", rf.val)

\* exec_return restoring THIS from the cell saved for THAT and THAT from
\* the one saved for THIS
exec_return_this_that_swapped(m) ==
    LET pr == pop_stack(m)
    IN  IF pr.res # "ok" THEN pr
        ELSE LET arg == Read(pr.m.ram, ARG)
                 m1  == [pr.m EXCEPT !.ram = Write(pr.m.ram, SP, Read(pr.m.ram, LCL))]
                 rf  == restore_frame(m1, <<THIS, THAT, ARG, LCL>>)
             IN  IF rf.res # "ok" THEN rf
                 ELSE LET m2 == [rf.m EXCEPT !.ram = Write(rf.m.ram, SP, arg)]
                          pg == push_global_stack(m2, pr.val)
                      IN  IF pg.res # "ok" THEN pg
                          ELSE LET cs == SubSeq(pg.m.call_stack, 1, Len(pg.m.call_stack) - 1)
                               IN  Out([ram |-> pg.m.ram,
                                        call_stack |-> SetTop(cs, [Top(cs) EXCEPT !.index = @ + 1])],
                                       "ok", rf.val)

\* exec_return resuming the caller at the value popped from the stack
exec_return_to_popped_index(m) ==
    LET pr == pop_stack(m)
    IN  IF pr.res # "ok" THEN pr
        ELSE LET arg == Read(pr.m.ram, ARG)
                 m1  == [pr.m EXCEPT !.ram = Write(pr.m.ram, SP, Read(pr.m.ram, LCL))]
                 rf  == restore_frame(m1, <<THAT, THIS, ARG, LCL>>)
             IN  IF rf.res # "ok" THEN rf
                 ELSE LET m2 == [rf.m EXCEPT !.ram = Write(rf.m.ram, SP, arg)]
                          pg == push_global_stack(m2, pr.val)
                      IN  IF pg.res # "ok" THEN pg
                          ELSE LET cs == SubSeq(pg.m.call_stack, 1, Len(pg.m.call_stack) - 1)
                               IN  Out([ram |-> pg.m.ram,
                                        call_stack |-> SetTop(cs, [Top(cs) EXCEPT !.index = rf.val])],
                                       "ok", rf.val)

exec_return(m) ==
    LET pr == pop_stack(m)
    IN  IF pr.res # "ok" THEN pr
        ELSE LET arg == Read(pr.m.ram, ARG)
                 m1  == [pr.m EXCEPT !.ram = Write(pr.m.ram, SP, Read(pr.m.ram, LCL))]
                 rf  == restore_frame(m1, <<THAT, THIS, ARG, LCL>>)
             IN  IF rf.res # "ok" THEN rf
                 ELSE LET m2 == [rf.m EXCEPT !.ram = Write(rf.m.ram, SP, arg)]
                          pg == push_global_stack(m2, pr.val)
                      IN  IF pg.res # "ok" THEN pg
                          ELSE LET cs == SubSeq(pg.m.call_stack, 1, Len(pg.m.call_stack) - 1)
                               IN  Out([ram |-> pg.m.ram,
                                        call_stack |-> SetTop(cs, [Top(cs) EXCEPT !.index = @ + 1])],
                                       "ok", rf.val)

\* bitwise operations of two's complement numbers, bit by bit
RECURSIVE BitAnd(_, _)
BitAnd(b, a) ==
    IF b = 0 \/ a = 0 THEN 0
    ELSE IF b = -1 THEN a
    ELSE IF a = -1 THEN b
    ELSE 2 * BitAnd(b \div 2, a \div 2) + (IF b % 2 = 1 /\ a % 2 = 1 THEN 1 ELSE 0)

BitNot(a) == IF a = I32_MIN THEN I32_MAX ELSE -a - 1

BitOr(b, a) == BitNot(BitAnd(BitNot(b), BitNot(a)))

Truth(c) == IF c THEN -1 ELSE 0

\* b + a and b - a leave the range of an i32
AddOverflows(b, a) ==
    \/ a > 0 /\ b > I32_MAX - a
    \/ a < 0 /\ b < I32_MIN - a

SubOverflows(b, a) ==
    \/ a < 0 /\ b > I32_MAX + a
    \/ a > 0 /\ b < I32_MIN + a

\* the i32 a build without overflow checks computes: the sum, the
\* difference and the negation modulo 2^32
wrapping_add(b, a) ==
    IF a > 0 /\ b > I32_MAX - a THEN (b - I32_MAX - 1) + (a - I32_MAX - 1)
    ELSE IF a < 0 /\ b < I32_MIN - a THEN (b + I32_MAX + 1) + (a + I32_MAX + 1)
    ELSE b + a

wrapping_sub(b, a) ==
    IF a < 0 /\ b > I32_MAX + a THEN (b - I32_MAX - 1) - (a + I32_MAX + 1)
    ELSE IF a > 0 /\ b < I32_MIN + a THEN (b + I32_MAX + 1) - (a - I32_MAX - 1)
    ELSE b - a

wrapping_neg(a) == IF a = I32_MIN THEN I32_MIN ELSE -a

\* the operation leaves the range of an i32 (a is 0 for neg and not)
Overflows(operation, b, a) ==
    CASE operation = "add" -> AddOverflows(b, a)
      [] operation = "sub" -> SubOverflows(b, a)
      [] operation = "neg" -> b = I32_MIN
      [] OTHER -> FALSE

\* the arms with the operands of one another: a - b for sub, a < b for lt
ArithResult_operands_swapped(operation, b, a) ==
    CASE operation = "add" -> wrapping_add(a, b)
      [] operation = "sub" -> wrapping_sub(a, b)
      [] operation = "and" -> BitAnd(a, b)
      [] operation = "or"  -> BitOr(a, b)
      [] operation = "eq"  -> Truth(a = b)
      [] operation = "lt"  -> Truth(a < b)
      [] operation = "gt"  -> Truth(a > b)

\* lines 362-392: the arms of the binary operations
ArithResult(operation, b, a) ==
    CASE operation = "add" -> wrapping_add(b, a)
      [] operation = "sub" -> wrapping_sub(b, a)
      [] operation = "and" -> BitAnd(b, a)
      [] operation = "or"  -> BitOr(b, a)
      [] operation = "eq"  -> Truth(b = a)
      [] operation = "lt"  -> Truth(b < a)
      [] operation = "gt"  -> Truth(b > a)

\* an overflow aborts in a build with overflow checks and wraps in one
\* without; input.overflow_checks says which build runs
exec_arithmetic(m, operation) ==
    LET pa == pop_stack(m)
    IN  IF pa.res # "ok" THEN pa
        ELSE IF operation = "neg"
             THEN IF Overflows("neg", pa.val, 0) /\ input.overflow_checks
                  THEN Out(pa.m, "panic", 0)
                  ELSE push_stack(pa.m, wrapping_neg(pa.val))
        ELSE IF operation = "not" THEN push_stack(pa.m, BitNot(pa.val))
        ELSE LET pb == pop_stack(pa.m)
             IN  IF pb.res # "ok" THEN pb
                 ELSE IF Overflows(operation, pb.val, pa.val) /\ input.overflow_checks
                      THEN Out(pb.m, "panic", 0)
                      ELSE push_stack(pb.m, ArithResult(operation, pb.val, pa.val))

\* get_stack and peek_stack: the last cell of ram[max(local_end, 256)..SP]
peek_stack(m) ==
    LET local_end == Read(m.ram, LCL)
                       + get_vmfunction(Top(m.call_stack).function).num_locals
        start     == Max(local_end, STACK_BASE)
        end       == Read(m.ram, SP)
    IN  IF Addressable(Read(m.ram, LCL)) /\ Addressable(end) /\ SliceOk(start, end)
           /\ start < end
        THEN Out(m, "ok", Read(m.ram, end - 1))
        ELSE Out(m, "panic", 0)

\* VMEmulator::init on the emulator state m
init(m) ==
    LET f == get_function_ref("Sys.init")
        ram1 == Write(m.ram, SP, STACK_BASE)
    IN  IF f.some
        THEN Out([ram |-> ram1, call_stack |-> Append(m.call_stack, new_frame(f.ref, 0))],
                 "ok", 0)
        ELSE ErrOut([m EXCEPT !.ram = ram1], "NoSysInit")

(***************************************************************************)
(* vmemulator.rs: step, command by command.                                *)
(***************************************************************************)
Advance(m) ==
    [m EXCEPT !.call_stack = SetTop(m.call_stack, [Top(m.call_stack) EXCEPT !.index = @ + 1])]

Jump(m, index) ==
    [m EXCEPT !.call_stack = SetTop(m.call_stack, [Top(m.call_stack) EXCEPT !.index = index])]

\* every exec_* that succeeded is followed by frame.index += 1
ThenAdvance(o) == IF o.res = "ok" THEN [o EXCEPT !.m = Advance(o.m)] ELSE o

RECURSIVE push_zeros(_, _)
push_zeros(m, num_locals) ==
    IF num_locals = 0 THEN Out(m, "ok", 0)
    ELSE LET p == push_global_stack(m, 0)
         IN  IF p.res # "ok" THEN p ELSE push_zeros(p.m, num_locals - 1)

step_function(m, num_locals) == ThenAdvance(push_zeros(m, num_locals))

step_call(m, function_ref, num_args) ==
    IF function_ref.kind = "Internal"
    THEN ThenAdvance(exec_internal(m, function_ref.id, num_args))
    ELSE exec_call(m, function_ref, num_args)

step_return(m) ==
    IF Len(m.call_stack) = 1
    THEN LET p == peek_stack(m)
         IN  IF p.res = "ok" THEN Out(m, "halt", p.val) ELSE p
    ELSE exec_return(m)

step_goto(m, index) == Out(Jump(m, index), "ok", 0)

\* the If command branching on every value but 0
step_if_on_nonzero(m, index) ==
    LET p == pop_stack(m)
    IN  IF p.res # "ok" THEN p
        ELSE IF p.val # 0 THEN Out(Jump(p.m, index), "ok", 0)
        ELSE Out(Advance(p.m), "ok", 0)

step_if(m, index) ==
    LET p == pop_stack(m)
    IN  IF p.res # "ok" THEN p
        ELSE IF p.val = -1 THEN Out(Jump(p.m, index), "ok", 0)
        ELSE Out(Advance(p.m), "ok", 0)

step_command(m, command) ==
    CASE command.op = "Function" -> step_function(m, command.n)
      [] command.op = "Call" -> step_call(m, command.fn, command.n)
      [] command.op = "Return" -> step_return(m)
      [] command.op = "Goto" -> step_goto(m, command.index)
      [] command.op = "If" -> step_if(m, command.index)
      [] command.op = "Push" -> ThenAdvance(exec_push(m, command.seg, command.idx))
      [] command.op = "Pop" -> ThenAdvance(exec_pop(m, command.seg, command.idx))
      [] command.op = "CopySeg" ->
           ThenAdvance(exec_copy_seg(m, command.from_segment, command.from_index,
                                     command.to_segment, command.to_index))
      [] command.op = "Arithmetic" -> ThenAdvance(exec_arithmetic(m, command.operation))

\* next_command: [some, ok, command]; ok = FALSE where get_command aborts
next_command(m) ==
    IF m.call_stack = <<>> THEN [some |-> FALSE, ok |-> TRUE]
    ELSE LET frame == Top(m.call_stack)
         IN  IF CommandInRange(frame.function, frame.index)
             THEN [some |-> TRUE, ok |-> TRUE,
                   command |-> get_command(frame.function, frame.index)]
             ELSE [some |-> TRUE, ok |-> FALSE]

\* VMEmulator::step without the counter (the caller adds one to it first)
step(m) ==
    LET nc == next_command(m)
    IN  IF ~nc.some THEN ErrOut(m, "NoMoreCommands")
        ELSE IF ~nc.ok THEN Out(m, "panic", 0)
        ELSE step_command(m, nc.command)

\* VMEmulator::run after its init: the loop, with the counter c.  run_after
\* is the body of the loop once step has returned o; run_loop binds the
\* outcome of the step as a value, so that it is computed once
RECURSIVE run_loop(_, _, _)
run_after(o, c, max_steps) ==
    IF o.res = "halt" THEN [out |-> Out(o.m, "ok", o.val), counter |-> c + 1]
    ELSE IF o.res # "ok" THEN [out |-> o, counter |-> c + 1]
    ELSE IF c + 1 > max_steps THEN [out |-> ErrOut(o.m, "StepBudget"), counter |-> c + 1]
    ELSE run_loop(o.m, c + 1, max_steps)

run_loop(m, c, max_steps) ==
    CHOOSE r \in {run_after(o, c, max_steps) : o \in {step(m)}} : TRUE

run(m, c, max_steps) ==
    LET i == init(m)
    IN  IF i.res # "ok" THEN [out |-> i, counter |-> c]
        ELSE run_loop(i.m, c, max_steps)

(***************************************************************************)
(* The programs explored.  Every input is a list of files, each with the   *)
(* token list the tokenizer gives for it, and the intrinsic table.         *)
(***************************************************************************)
File(name, tokens) == [name |-> name, tokens |-> tokens]

NoInternals == << >>

\* one intrinsic of the host's table
Intrinsic(name, id) == [name |-> name, ref |-> Internal(id)]

EmulatorInternals == <<Intrinsic("Math.divide", 0), Intrinsic("Math.multiply", 1)>>

\* overflow_checks: the build aborts on an integer overflow (a debug
\* build) or wraps (a release build)
Input(files, internals) ==
    [files |-> files, internals |-> internals, overflow_checks |-> FALSE]

Checked(in) == [in EXCEPT !.overflow_checks = TRUE]

\* what Sys.init does before it calls Main.f
CallerPreludes ==
    { << >>,
      <<Push("constant", 5)>>,
      <<Push("constant", 5), Push("constant", 6)>>,
      <<Push("constant", 5), Pop("pointer", 0), Push("constant", 6)>> }

\* the cells a callee writes: reserved cells and stack cells through that
\* (THAT is 0 unless the caller set it), and its own segments
PokeTargets ==
    ({"that"} \X {0, 1, 2, 3, 256, 257, 258, 259, 260, 261})
      \cup ({"local", "argument", "pointer", "temp", "static"} \X {0})
      \cup {<<"pointer", 1>>, <<"this", 0>>}

PokeValues == {9, 300}

CalleeBodies ==
    { << >>, <<Push("constant", 7)>>, <<Push("argument", 0)>>,
      <<Push("argument", 0), Push("constant", 1), Arith("add")>> }
      \cup { <<Push("constant", v), Pop(t[1], t[2]), Push("constant", 7)>> :
               v \in PokeValues, t \in PokeTargets }

CallPrograms ==
    { Input(<<File("Sys.vm", <<Function("Sys.init", 0)>> \o pre
                               \o <<Call("Main.f", n), Return>>),
              File("Main.vm", <<Function("Main.f", k1)>> \o body \o <<Return>>)>>,
            NoInternals) :
        k1 \in 0..MaxLocals, n \in 0..MaxArgs,
        pre \in CallerPreludes, body \in CalleeBodies }

\* a call from a frame that is not the bottom one
NestedPrograms ==
    { Input(<<File("Sys.vm", <<Function("Sys.init", 0), Push("constant", 4),
                               Call("Main.f", 1), Return,
                               Function("Main.f", k1), Push("constant", 20), Pop("pointer", 0),
                               Push("argument", 0), Push("constant", 3),
                               Call("Main.g", n), Push("constant", 1), Arith("add"), Return>>),
              File("Main.vm", <<Function("Main.g", k2)>> \o body \o <<Return>>)>>,
            NoInternals) :
        k1 \in 0..MaxLocals, k2 \in 0..MaxLocals, n \in 0..MaxArgs,
        body \in { <<Push("constant", 7)>>,
                   <<Push("constant", 30), Pop("pointer", 0), Push("constant", 8),
                     Pop("local", 0), Push("argument", 0)>>,
                   <<Push("constant", 9), Pop("that", 1), Push("constant", 7)>> } }

\* a function that pops, after a call has returned into it, the result and
\* then more than it has pushed itself
OverPopPrograms ==
    { Input(<<File("Sys.vm", <<Function("Sys.init", 0)>> \o first \o <<Call("Main.f", 0), Return>>),
              File("Main.vm", <<Function("Main.f", k1)>> \o own
                                \o <<Call("Main.g", 0)>> \o pops
                                \o <<Push("constant", 1), Return,
                                     Function("Main.g", 0), Push("constant", 7), Return>>)>>,
            NoInternals) :
        k1 \in 0..MaxLocals,
        first \in {<< >>, <<Push("constant", 6)>>},
        own \in {<< >>, <<Push("constant", 3)>>},
        pops \in {<<Pop("temp", 0)>>, <<Pop("temp", 0), Pop("temp", 1)>>,
                  <<Pop("temp", 0), Pop("temp", 1), Pop("temp", 2)>>} }

\* if-goto on -1, on 0 and on other values; a loop that never halts
BranchValues == {0, 1, 65535}

BranchPrograms ==
    { Input(<<File("Sys.vm", <<Function("Sys.init", 0), Push("constant", v)>> \o neg
                               \o <<IfGoto("L")>> \o mid
                               \o <<Label("L"), Push("constant", 2), Return>>)>>,
            NoInternals) :
        v \in BranchValues, neg \in {<< >>, <<Arith("not")>>, <<Arith("neg")>>},
        mid \in {<< >>, <<Push("constant", 1), Return>>} }
      \cup
    { Input(<<File("Sys.vm", <<Function("Sys.init", 0), Label("LOOP")>> \o body
                               \o <<Goto("LOOP")>>)>>, NoInternals) :
        body \in {<< >>, <<Push("constant", 1), Pop("temp", 0)>>,
                  <<Push("constant", 0), IfGoto("LOOP")>>} }
      \cup
    { Input(<<File("Sys.vm", <<Function("Sys.init", 0), Push("constant", 0), Arith("not"),
                               Label("AGAIN"), Push("constant", 1), Arith("add"),
                               IfGoto("AGAIN"), Push("constant", 3), Return>>)>>,
            NoInternals) }

\* three files with their own statics
StaticPrograms ==
    { Input(<<File("Sys.vm", <<Function("Sys.init", 0), Push("constant", 11),
                               Pop("static", i0), Call("A.f", 0), Pop("temp", 0),
                               Call("B.g", 0), Pop("static", i0), Push("static", 0),
                               Return>>),
              File("A.vm", <<Function("A.f", 0)>> \o abody \o <<Return>>),
              File("B.vm", <<Function("B.g", 0), Push("constant", 33), Pop("static", ib),
                             Push("static", 0), Return>>)>>,
            NoInternals) :
        i0 \in {0, 1}, ib \in {0, 1},
        abody \in { <<Push("constant", 22)>>,
                    <<Push("constant", 22), Pop("static", 0), Push("static", 0)>>,
                    <<Push("constant", 22), Push("constant", 23), Pop("static", 1),
                      Pop("static", 0), Push("static", 1)>> } }

\* static indexes up to the last cell below the stack and past it
HighStatics == {0, 119, 120, 239, 240}

\* one or two files that store into a high static, push and read it back
LargeStaticPrograms ==
    { Input(<<File("Sys.vm", <<Function("Sys.init", 0), Push("constant", 11),
                               Pop("static", i0), Push("constant", 5), Push("static", i0),
                               Return>>)>>, NoInternals) : i0 \in HighStatics }
      \cup
    { Input(<<File("A.vm", <<Function("A.f", 0), Push("static", ia), Return>>),
              File("Sys.vm", <<Function("Sys.init", 0), Push("constant", 11),
                               Pop("static", i0), Call("A.f", 0), Push("static", i0),
                               Return>>)>>, NoInternals) :
        ia \in HighStatics, i0 \in HighStatics }

\* a fused push/pop pair over every pair of segments, in the bottom frame
\* and in a called function, and a pair that follows a store into SP
FusedEnds == (SEGMENTS \X {0}) \cup {<<"constant", 300>>, <<"pointer", 1>>, <<"that", 256>>}

\* the values a program stores into SP (that 0 is RAM[0] while THAT is 0)
StackPointers == {9, 255, 256, 300}

FusionPrograms ==
    { Input(<<File("Sys.vm", <<Function("Sys.init", k0), Push("constant", 5),
                               Push(a[1], a[2]), Pop(b[1], b[2]), Return>>)>>,
            NoInternals) : k0 \in 0..MaxLocals, a \in FusedEnds, b \in FusedEnds }
      \cup
    { Input(<<File("Sys.vm", <<Function("Sys.init", 0), Push("constant", 5),
                               Push("constant", 6), Call("Main.f", 2), Return,
                               Function("Main.f", 1), Push("constant", 7),
                               Push(a[1], a[2]), Pop(b[1], b[2]), Return>>)>>,
            NoInternals) : a \in FusedEnds, b \in FusedEnds }
      \cup
    { Input(<<File("Sys.vm", <<Function("Sys.init", 0), Push("constant", sp),
                               Pop("that", 0), Push("constant", 1), Pop("temp", 0),
                               Push("constant", 2), Return>>)>>,
            NoInternals) : sp \in StackPointers }

\* the intrinsics of the emulator
InternalPrograms ==
    { Input(<<File("Sys.vm", <<Function("Sys.init", 0), Push("constant", 10),
                               Push("constant", d), Call(f, 2), Return>>)>>,
            EmulatorInternals) :
        d \in {0, 2, 3}, f \in {"Math.divide", "Math.multiply"} }

\* tables in which two names share one id, in either iteration order
AliasedInternals ==
    { <<Intrinsic("Math.multiply", 1), Intrinsic("Math.mul", 1)>>,
      <<Intrinsic("Math.mul", 1), Intrinsic("Math.multiply", 1)>> }

DeclaredNames == {"Main.f", "Math.multiply"}

\* the functions a file declares beside Sys.init: none, one, or two
DeclarationLists ==
    {<< >>} \cup { <<a>> : a \in DeclaredNames } \cup { <<a, b>> : a, b \in DeclaredNames }

Declare(names) ==
    Concat([i \in 1..Len(names) |->
              <<Function(names[i], 0), Push("constant", 7), Return>>])

\* what a file holds before its first function declaration
Strays == { << >>, <<Push("constant", 1)>> }

\* Sys.init calls g; Sys.vm and Main.vm declare functions whose names may
\* repeat and may be names of intrinsics (test_with_internals)
TablePrograms ==
    { Input(<<File("Sys.vm", stray \o <<Function("Sys.init", 0), Push("constant", 3),
                                         Push("constant", 4), Call(g, 2), Return>>
                               \o Declare(d1))>>
              \o (IF d2 = << >> THEN << >> ELSE <<File("Main.vm", Declare(d2))>>),
            internals) :
        stray \in Strays, g \in {"Main.f", "Math.multiply", "Math.mul"},
        d1 \in DeclarationLists, d2 \in DeclarationLists,
        internals \in {NoInternals, EmulatorInternals} \cup AliasedInternals }

Labels == {"A", "B"}

LabelLists == {<< >>} \cup { <<Label(l)>> : l \in Labels }

\* Sys.init branches to a label that it declares before the branch, after
\* it, twice, or not at all, while Main.f declares labels of its own, in
\* the same file or in another
LabelPrograms ==
    { Input(IF together
            THEN <<File("Sys.vm", first \o second)>>
            ELSE <<File("Sys.vm", first), File("Main.vm", second)>>, NoInternals) :
        together \in BOOLEAN,
        first \in { <<Function("Sys.init", 0), Push("constant", 0)>> \o before
                      \o <<branch>> \o after \o <<Push("constant", 2), Return>> :
                    before \in LabelLists, after \in LabelLists,
                    branch \in {Goto(l) : l \in Labels} \cup {IfGoto(l) : l \in Labels} },
        second \in { <<Function("Main.f", 0)>> \o labels \o <<Push("constant", 7), Return>> :
                     labels \in LabelLists \cup {<<Label("A"), Label("B")>>} } }

\* functions whose last token is a label a branch names, and functions
\* that end without a return
TrailingLabelPrograms ==
    { Input(<<File("Sys.vm", <<Function("Sys.init", 0), Push("constant", v), Arith("not")>>
                               \o <<branch>> \o middle \o last \o other)>>, NoInternals) :
        v \in {0, 1},
        branch \in {Goto("END"), IfGoto("END")},
        middle \in {<< >>, <<Push("constant", 2), Return>>, <<Push("constant", 2)>>},
        last \in {<<Label("END")>>, <<Label("END"), Push("constant", 3)>>,
                  <<Label("END"), Push("constant", 3), Return>>},
        other \in {<< >>, <<Function("Sys.other", 0), Push("constant", 4), Return>>} }

\* tokens a branch jumps over: one command, a fused pair, or both
Skipped ==
    { <<Push("constant", 12)>>,
      <<Push("constant", 12), Pop("temp", 0)>>,
      <<Push("constant", 12), Pop("temp", 0), Push("constant", 13)>> }

\* Sys.init and Sys.other both branch over some tokens to a label of their
\* own, of the same name or of different names
ScopedLabelPrograms ==
    { Input(<<File("Sys.vm",
                   <<Function("Sys.init", 0), Push("constant", 10), Goto(first)>>
                   \o over \o
                   <<Label(first), Push("constant", 5), Arith("add"),
                     Call("Sys.other", 0), Arith("add"), Return,
                     Function("Sys.other", 0), Push("constant", 20), Goto(second)>>
                   \o beyond \o
                   <<Label(second), Push("constant", 15), Arith("add"), Return>>)>>,
            NoInternals) :
        first \in Labels, second \in Labels, over \in Skipped, beyond \in Skipped }

\* an intrinsic table with an id that exec_internal does not know
UnknownInternals == <<Intrinsic("Host.f", 7)>>

\* what Sys.init does on a state that is not well formed: a pop or an
\* arithmetic command on an empty stack, an index past the end of its
\* segment, a pop to constant, a call of an unknown intrinsic
IllFormedBodies ==
    { <<Pop("temp", 0)>>, <<Arith("add")>>, <<Arith("neg")>>,
      <<Push("constant", 1), Arith("neg"), Pop("constant", 0)>>,
      <<Push("constant", 1), Pop("constant", 0)>>,
      <<Push("constant", 1), Push("constant", 2), Call("Host.f", 2)>>,
      <<Push("constant", 1), Call("Math.multiply", 1)>> }
      \cup { <<Push(seg, i)>> : seg \in SEGMENTS \ {"constant"}, i \in {0, 1, 2, 8} }
      \cup { <<Push("constant", 1), Arith("neg"), Pop(seg, i)>> :
                seg \in {"local", "argument", "temp", "pointer"}, i \in {1, 2, 8} }
      \cup { <<Push("constant", 1), Pop(seg, i)>> :
                seg \in {"local", "argument", "temp", "pointer"}, i \in {1, 2, 8} }

IllFormedPrograms ==
    { Input(<<File("Sys.vm", <<Function("Sys.init", k0)>> \o body \o <<Return>>)>>,
            internals) :
        k0 \in 0..MaxLocals, body \in IllFormedBodies,
        internals \in {EmulatorInternals, UnknownInternals} }

Operands == {0, 21, 25}

\* tests::arithmetic: two operands, the first possibly negated and the
\* second possibly complemented, then one operation
ArithmeticPrograms ==
    { Input(<<File("Sys.vm", <<Function("Sys.init", 0), Push("constant", x)>> \o nx
                               \o <<Push("constant", y)>> \o ny
                               \o <<Arith(o), Return>>)>>, NoInternals) :
        x \in Operands, y \in Operands, nx \in {<< >>, <<Arith("neg")>>},
        ny \in {<< >>, <<Arith("not")>>}, o \in ArithOps }

\* 46340 * 46340 + 65535 + 22512 is the largest i32
NearMax ==
    <<Push("constant", 46340), Push("constant", 46340), Call("Math.multiply", 2),
      Push("constant", 65535), Arith("add")>>

\* what follows NearMax: sums, differences and negations at the ends of
\* the range of an i32
Extremes ==
    { <<Push("constant", 22512), Arith("add")>>,
      <<Push("constant", 22513), Arith("add")>>,
      <<Push("constant", 65535), Arith("add")>>,
      <<Push("constant", 22512), Arith("add"), Arith("not"), Arith("neg")>>,
      <<Push("constant", 22512), Arith("add"), Arith("not"), Push("constant", 1),
        Arith("sub")>>,
      <<Push("constant", 22512), Arith("add"), Arith("neg"), Push("constant", 1),
        Arith("sub")>>,
      <<Push("constant", 22512), Arith("add"), Arith("neg"), Push("constant", 2),
        Arith("sub")>>,
      <<Push("constant", 22512), Arith("add"), Arith("not"), Push("constant", 1),
        Arith("lt")>>,
      <<Push("constant", 22512), Arith("add"), Arith("not"), Arith("not")>>,
      <<Push("constant", 22512), Arith("add"), Push("constant", 0), Arith("not"),
        Arith("and")>>,
      <<Push("constant", 0), Arith("not"), Arith("sub")>>,
      <<Push("constant", 22512), Arith("add"), Push("constant", 0), Arith("not"),
        Arith("sub")>> }

ExtremePrograms ==
    { IF checks THEN Checked(in) ELSE in :
        checks \in BOOLEAN,
        in \in { Input(<<File("Sys.vm", <<Function("Sys.init", 0)>> \o NearMax \o tail
                                          \o <<Return>>)>>, EmulatorInternals) :
                  tail \in Extremes } }

Inputs ==
    CallPrograms \cup NestedPrograms \cup BranchPrograms \cup StaticPrograms
      \cup FusionPrograms \cup InternalPrograms \cup TablePrograms
      \cup LabelPrograms \cup IllFormedPrograms \cup ArithmeticPrograms
      \cup ExtremePrograms \cup ScopedLabelPrograms \cup OverPopPrograms
      \cup LargeStaticPrograms \cup TrailingLabelPrograms

(***************************************************************************)
(* The host: VMEmulator::new, then init, step, run and reset.              *)
(***************************************************************************)
EmptyRam == [a \in {} |-> 0]

Result(kind, value, why) == [kind |-> kind, value |-> value, why |-> why]

HostOp(name, max_steps) == [name |-> name, max_steps |-> max_steps]

Machine == [ram |-> ram, call_stack |-> call_stack]

Snapshot ==
    [ram |-> ram, call_stack |-> call_stack, step_counter |-> step_counter, calls |-> calls]

\* the history kept for a frame that exec_call did not create
NoCall == [known |-> FALSE]

Unknown(cs) == [i \in 1..Len(cs) |-> NoCall]

\* the programs on which the host's whole interface is explored
HostInputs ==
    { Input(<<File("Sys.vm", <<Function("Sys.init", k0)>> \o body \o <<Return>>)>>,
            NoInternals) :
        k0 \in 0..MaxLocals,
        body \in { << >>, <<Push("constant", 10)>>,
                   <<Push("constant", 1), Push("constant", 2), Arith("add")>>,
                   <<Push("constant", 3), Arith("neg"), Arith("not"), Pop("temp", 1),
                     Push("temp", 1)>>,
                   <<Push("constant", 8), Pop("static", 0), Push("static", 0),
                     Push("pointer", 0), Arith("sub")>>,
                   <<Arith("add")>> } }
      \cup
    { Input(<<File("Sys.vm", <<Function("Sys.init", 0), Push("constant", 5),
                               Call("Main.f", n), Return>>),
              File("Main.vm", <<Function("Main.f", k1), Push("constant", 7), Return>>)>>,
            NoInternals) : k1 \in 0..MaxLocals, n \in 0..MaxArgs }
      \cup
    { Input(<<File("Sys.vm", <<Function("Sys.init", 0), Label("LOOP")>> \o body
                               \o <<Goto("LOOP")>>)>>, NoInternals) :
        body \in {<< >>, <<Push("constant", 1), Pop("temp", 0)>>, <<Push("constant", 1)>>} }
      \cup
    { Input(<<File("Main.vm", <<Function("Main.main", 0), Push("constant", 1), Return>>)>>,
            NoInternals) }

NotCompiled == [res |-> "none"]

\* no module is compiled
NoModule == module = << >> /\ compiled = NotCompiled

NoCommand == [op |-> "none", popped |-> 0, jumped |-> FALSE]

NotStarted ==
    [status |-> "none", pc |-> 0, stack |-> << >>,
     temp |-> [i \in 0..(TEMP_LEN - 1) |-> 0], rax |-> 0, last |-> NoCommand,
     tested |-> {}]

NoNative == native = NotStarted

\* no file is written or read
NoFile ==
    /\ stream = << >> /\ written = 0 /\ text = << >>
    /\ line_index = 0 /\ tokens_read = << >> /\ parsed = "ok"

EmulatorInit(inputs) ==
    /\ input \in inputs
    /\ program = VMProgram_with_internals(input.files, input.internals)
    /\ ram = EmptyRam
    /\ call_stack = << >>
    /\ step_counter = 0
    /\ op = HostOp("new", 0)
    /\ result = Result("Ok", 0, "")
    /\ prev = [ram |-> EmptyRam, call_stack |-> << >>, step_counter |-> 0, calls |-> << >>]
    /\ calls = << >>
    /\ host_calls = 0

InitWith(inputs) == NoFile /\ NoModule /\ NoNative /\ EmulatorInit(inputs)

Alive == program.ok /\ result.kind # "Panic"

Finished == result.kind \in {"Halted", "Err"} \/ op.name = "run"

\* the host calls init, run and reset before the first step or once the
\* program has halted or failed
BetweenRuns == op.name \in {"new", "init", "run", "reset"} \/ Finished

MayCall == Alive /\ BetweenRuns /\ host_calls < MaxHostCalls

Init == InitWith(Inputs)

HostInit0 == InitWith(HostInputs)

HostInit ==
    /\ MayCall
    /\ \E o \in {init(Machine)} :
           /\ ram' = o.m.ram
           /\ call_stack' = o.m.call_stack
           /\ result' = IF o.res = "ok" THEN Result("Ok", 0, "") ELSE Result("Err", 0, o.why)
           /\ calls' = Unknown(o.m.call_stack)
    /\ op' = HostOp("init", 0)
    /\ prev' = Snapshot
    /\ host_calls' = host_calls + 1
    /\ UNCHANGED <<input, program, step_counter>>
    /\ UNCHANGED <<parser_vars, compiler_vars, native_vars>>

\* the history of the frames after a step: a call adds what the caller had
\* before it (m) and what the call left (o.m: the five cells it pushed from
\* the old SP on, and the LCL and ARG it set); a return from a called frame
\* drops the last entry
CallsAfter(m, command, o) ==
    IF o.res # "ok" THEN calls
    ELSE IF command.op = "Call" /\ command.fn.kind = "InCode"
         THEN Append(calls,
                     [known |-> TRUE,
                      return_index |-> Top(m.call_stack).index + 1,
                      lcl |-> Read(m.ram, LCL), arg |-> Read(m.ram, ARG),
                      this |-> Read(m.ram, THIS), that |-> Read(m.ram, THAT),
                      sp |-> Read(m.ram, SP), num_args |-> command.n,
                      stack_size |-> Top(m.call_stack).stack_size,
                      saved |-> [j \in 1..SAVED_CELLS |->
                                   Read(o.m.ram, Read(m.ram, SP) + j - 1)],
                      lcl_set |-> Read(o.m.ram, LCL), arg_set |-> Read(o.m.ram, ARG),
                      caller_depth |-> Len(m.call_stack)])
         ELSE IF command.op = "Return"
              THEN SubSeq(calls, 1, Len(calls) - 1)
              ELSE calls

HostStep ==
    /\ Alive
    /\ \/ op.name \in {"new", "init", "reset"} /\ result.kind = "Ok"
       \/ op.name = "step" /\ result.kind = "Continue"
    /\ step_counter < MaxSteps
    /\ \E o \in {step(Machine)}, nc \in {next_command(Machine)} :
           /\ ram' = o.m.ram
           /\ call_stack' = o.m.call_stack
           /\ result' = CASE o.res = "ok" -> Result("Continue", 0, "")
                          [] o.res = "halt" -> Result("Halted", o.val, "")
                          [] o.res = "err" -> Result("Err", 0, o.why)
                          [] o.res = "panic" -> Result("Panic", 0, "")
           /\ calls' = IF nc.some /\ nc.ok THEN CallsAfter(Machine, nc.command, o) ELSE calls
    /\ step_counter' = step_counter + 1
    /\ op' = HostOp("step", 0)
    /\ prev' = Snapshot
    /\ UNCHANGED <<input, program, host_calls>>
    /\ UNCHANGED <<parser_vars, compiler_vars, native_vars>>

HostRun ==
    /\ MayCall
    /\ \E max_steps \in 0..MaxBudget :
         \E r \in {run(Machine, step_counter, max_steps)} :
             /\ ram' = r.out.m.ram
             /\ call_stack' = r.out.m.call_stack
             /\ step_counter' = r.counter
             /\ result' = CASE r.out.res = "ok" -> Result("Ok", r.out.val, "")
                            [] r.out.res = "err" -> Result("Err", 0, r.out.why)
                            [] r.out.res = "panic" -> Result("Panic", 0, "")
             /\ calls' = Unknown(r.out.m.call_stack)
             /\ op' = HostOp("run", max_steps)
    /\ prev' = Snapshot
    /\ host_calls' = host_calls + 1
    /\ UNCHANGED <<input, program>>
    /\ UNCHANGED <<parser_vars, compiler_vars, native_vars>>

\* VMEmulator::reset: init().unwrap() aborts when there is no Sys.init
HostReset ==
    /\ MayCall /\ Finished
    /\ \E o \in {init([ram |-> EmptyRam, call_stack |-> << >>])} :
           /\ ram' = o.m.ram
           /\ call_stack' = o.m.call_stack
           /\ result' = IF o.res = "ok" THEN Result("Ok", 0, "") ELSE Result("Panic", 0, "")
           /\ calls' = Unknown(o.m.call_stack)
    /\ step_counter' = 0
    /\ op' = HostOp("reset", 0)
    /\ prev' = Snapshot
    /\ host_calls' = host_calls + 1
    /\ UNCHANGED <<input, program>>
    /\ UNCHANGED <<parser_vars, compiler_vars, native_vars>>

\* the host that calls init once and then steps
Start == op.name = "new" /\ HostInit

Next == Start \/ HostStep

Spec == Init /\ [][Next]_vars

\* the host that uses the whole interface
HostNext == HostInit \/ HostStep \/ HostRun \/ HostReset

HostSpec == HostInit0 /\ [][HostNext]_vars

(***************************************************************************)
(* Files: write_to_dir writes a token stream, parse_lines reads a text.    *)
(***************************************************************************)
\* names as the compiler and the tests write them, and names made of
\* slashes and digits
Names == {<<"L">>, <<"S", "y", "s", ".", "i", "n", "i", "t">>, <<"/", "/", "x">>, <<"1", "0">>}

Indexes == {0, 7, 65535}

TextTokens ==
    { Arith(o) : o \in ArithOps }
      \cup { Push(seg, i) : seg \in SEGMENTS, i \in Indexes }
      \cup { Pop(seg, i) : seg \in SEGMENTS, i \in Indexes }
      \cup { Label(l) : l \in Names } \cup { Goto(l) : l \in Names }
      \cup { IfGoto(l) : l \in Names }
      \cup { Function(f, k) : f \in Names, k \in Indexes }
      \cup { Call(f, k) : f \in Names, k \in Indexes }
      \cup { Return }

\* the tokens of which pairs are written
PairTokens ==
    { Arith("neg"), Push("constant", 65535), Pop("that", 0), Label(<<"/", "/", "x">>),
      IfGoto(<<"L">>), Function(<<"S", "y", "s", ".", "i", "n", "i", "t">>, 7), Call(<<"1", "0">>, 0), Return }

Streams ==
    { <<t>> : t \in TextTokens } \cup { <<t, u>> : t, u \in PairTokens }
      \cup { <<Function(<<"S", "y", "s", ".", "i", "n", "i", "t">>, 0), Label(<<"L">>), Push("constant", 7),
               Pop("static", 0), Goto(<<"L">>)>> }

\* lines as a hand writes them: comments, blank lines, commands with a
\* comment behind them (tests::test_parse_lines), commands that do not parse
HandLines ==
    { <<"/", "/", " ", "a">>,
      <<"/", "/", "a">>,
      <<"/", "/">>,
      <<" ", "/", "/", "a">>,
      <<"\t", "/", "/", " ", "a">>,
      << >>,
      <<" ", " ">>,
      <<"r", "e", "t", "u", "r", "n", " ", "/", "/", " ", "t", "h", "e", " ", "e", "n", "d">>,
      <<"r", "e", "t", "u", "r", "n", " ", "/", "/", "x">>,
      <<"p", "u", "s", "h", " ", "f", "o", "o", " ", "1", "0">>,
      <<"p", "u", "s", "h", " ", "c", "o", "n", "s", "t", "a", "n", "t", " ", "6", "5", "5", "3", "6">>,
      <<"p", "u", "s", "h", " ", "c", "o", "n", "s", "t", "a", "n", "t", " ", "+", "7">>,
      <<"p", "u", "s", "h", " ", "c", "o", "n", "s", "t", "a", "n", "t">>,
      <<"l", "a", "b", "e", "l">>,
      <<"f", "u", "n", "c", "t", "i", "o", "n", " ", "f">>,
      <<"c", "a", "l", "l", " ", "f", " ", "x">>,
      <<"f", "o", "o">>,
      <<"a", "d", "d">> }

HandTexts ==
    { << >> } \cup { l \o <<NEWLINE>> : l \in HandLines } \cup HandLines
      \cup { l \o <<NEWLINE>> \o k : l \in HandLines, k \in HandLines }

\* no program is loaded
NoProgram == Input(<< >>, NoInternals)

\* a stream that is to be written, or a text that is to be read
ParseInit ==
    /\ EmulatorInit({NoProgram})
    /\ NoModule
    /\ NoNative
    /\ \/ stream \in Streams /\ text = << >> /\ parsed = "writing"
       \/ stream = << >> /\ text \in HandTexts /\ parsed = "parsing"
    /\ written = 0 /\ line_index = 0 /\ tokens_read = << >>

\* write_to_dir, one turn of its loop: the text of the token and a newline
WriteToken ==
    /\ parsed = "writing"
    /\ written < Len(stream)
    /\ text' = text \o Token_fmt(stream[written + 1]) \o <<NEWLINE>>
    /\ written' = written + 1
    /\ parsed' = IF written + 1 = Len(stream) THEN "parsing" ELSE "writing"
    /\ UNCHANGED <<stream, line_index, tokens_read>>
    /\ UNCHANGED <<emulator_vars, compiler_vars, native_vars>>

\* parse_lines, one turn of its loop
ParseLine ==
    /\ parsed = "parsing"
    /\ line_index < Len(lines(text))
    /\ \E r \in {parse_line(lines(text)[line_index + 1])} :
         /\ parsed' = IF r.ok THEN "parsing" ELSE r.err
         /\ tokens_read' = IF r.ok /\ r.token # NoToken THEN Append(tokens_read, r.token)
                           ELSE tokens_read
    /\ line_index' = line_index + 1
    /\ UNCHANGED <<stream, written, text>>
    /\ UNCHANGED <<emulator_vars, compiler_vars, native_vars>>

\* parse_lines returns the tokens
ParseEnd ==
    /\ parsed = "parsing"
    /\ line_index = Len(lines(text))
    /\ parsed' = "ok"
    /\ UNCHANGED <<stream, written, text, line_index, tokens_read>>
    /\ UNCHANGED <<emulator_vars, compiler_vars, native_vars>>

ParseNext == WriteToken \/ ParseLine \/ ParseEnd

ParseSpec == ParseInit /\ [][ParseNext]_vars

(***************************************************************************)
(* Modules: the compiler compiles a module, and the loader loads the       *)
(* tokens it returned as the one file of a program.                        *)
(***************************************************************************)
NUMBER == BUILT_IN_TYPES[1]

VECTOR == <<"V">>

FieldNames == {<<"x">>, <<"y">>}

Scopes == {"Static", "Instance"}

MaxFields == 2

MaxParameters == 3

FieldDecls == { FieldDecl(scope, name, NUMBER) : scope \in Scopes, name \in FieldNames }

FieldLists == UNION { [1..n -> FieldDecls] : n \in 0..MaxFields }

ParameterLists ==
    UNION { [1..n -> { Parameter(name, NUMBER) : name \in FieldNames }] : n \in 0..MaxParameters }

This(field_name) == BinaryOp("Dot", Identifier(THIS_WORD), Identifier(field_name))

LOCAL_L == <<"l">>

\* bodies of a constructor over the parameters and the fields x and y
ConstructorBodies ==
    { << >>,
      <<AssignmentStatement(This(<<"x">>), Identifier(<<"x">>))>>,
      <<AssignmentStatement(This(<<"y">>), Identifier(<<"y">>))>>,
      <<AssignmentStatement(This(<<"x">>), Identifier(<<"x">>)),
        AssignmentStatement(This(<<"y">>), Identifier(<<"y">>))>>,
      <<AssignmentStatement(This(<<"y">>), Identifier(<<"x">>)),
        AssignmentStatement(This(<<"x">>), This(<<"y">>))>>,
      <<LetStatement(LOCAL_L, NUMBER, Identifier(<<"y">>)),
        AssignmentStatement(This(<<"x">>), Identifier(LOCAL_L))>>,
      <<LetStatement(LOCAL_L, NUMBER, Number(7)),
        LetStatement(<<"m">>, NUMBER, This(<<"x">>)),
        AssignmentStatement(This(<<"y">>), Identifier(<<"x">>))>> }

Constructor(parameters, block) == MethodDecl("Static", NEW_WORD, parameters, << >>, block)

\* one class V with its fields and its constructor
ConstructorModules ==
    { <<ClassDecl(VECTOR, fields, << >>, <<Constructor(parameters, block)>>)>> :
        fields \in FieldLists, parameters \in ParameterLists, block \in ConstructorBodies }

\* one class V with its fields only
FieldModules == { <<ClassDecl(VECTOR, fields, << >>, << >>)>> : fields \in FieldLists }

COUNTER == <<"i">>

Counting(block) ==
    WhileStatement(BinaryOp("Lt", Identifier(COUNTER), Number(3)),
                   <<AssignmentStatement(Identifier(COUNTER),
                                         BinaryOp("Plus", Identifier(COUNTER), Number(1)))>>
                   \o block)

\* bodies of a method with no loop, one loop, two loops in sequence, a loop
\* in a loop, and three loops
LoopBodies ==
    { <<LetStatement(COUNTER, NUMBER, Number(0))>> \o loops
        \o <<ReturnStatement(Identifier(COUNTER))>> :
        loops \in { << >>,
                    <<Counting(<< >>)>>,
                    <<Counting(<< >>), Counting(<< >>)>>,
                    <<Counting(<<Counting(<< >>)>>)>>,
                    <<Counting(<<Counting(<< >>)>>), Counting(<< >>)>> } }

MethodNames == {<<"f">>, <<"g">>}

\* one class V with one or two static methods that loop
LoopModules ==
    { <<ClassDecl(VECTOR, << >>, <<MethodDecl("Static", <<"f">>, << >>, NUMBER, first)>>,
                  << >>)>> : first \in LoopBodies }
    \cup
    { <<ClassDecl(VECTOR, << >>, <<MethodDecl("Static", <<"f">>, << >>, NUMBER, first),
                                   MethodDecl("Static", <<"g">>, << >>, NUMBER, second)>>,
                  << >>)>> : first \in LoopBodies, second \in LoopBodies }

PARAMETER_A == <<"a">>

PARAMETER_B == <<"b">>

\* parameter lists of distinct names
MethodParameters ==
    { <<Parameter(PARAMETER_A, NUMBER)>>,
      <<Parameter(PARAMETER_A, NUMBER), Parameter(PARAMETER_B, NUMBER)>>,
      <<Parameter(PARAMETER_B, NUMBER), Parameter(PARAMETER_A, NUMBER)>> }

\* bodies that read the parameters
MethodBodies ==
    { <<ReturnStatement(Identifier(PARAMETER_A))>>,
      <<ReturnStatement(Identifier(PARAMETER_B))>>,
      <<ReturnStatement(BinaryOp("Plus", Identifier(PARAMETER_A), Identifier(PARAMETER_B)))>>,
      <<ReturnStatement(BinaryOp("Sub", Identifier(PARAMETER_B), Identifier(PARAMETER_A)))>> }

\* one class V with one method of parameters, static or of an instance
MethodModules ==
    { <<ClassDecl(VECTOR, << >>,
                  <<MethodDecl(scope, <<"f">>, parameters, NUMBER, block)>>, << >>)>> :
        scope \in Scopes, parameters \in MethodParameters, block \in MethodBodies }

FOO == <<"F", "o", "o">>

BAR == <<"b", "a", "r">>

LOCAL_V == <<"v">>

IfStatement(condition_expr, block, else_block) ==
    [statement |-> "If", condition_expr |-> condition_expr, block |-> block,
     else_block |-> else_block]

ExprStatement == [statement |-> "Expr"]

Bool(value) == [term |-> "Bool", value |-> value]

\* the operators compile_binary_op has no token for
OtherOps == {"Multiply", "Divide", "Lte", "Gte", "Ne"}

\* bodies the compiler has no translation for: a static field that is not
\* declared, a field of a local object as destination, an if and an
\* expression statement, a boolean, and the other operators
UnhandledBodies ==
    { <<AssignmentStatement(BinaryOp("Dot", Identifier(FOO), Identifier(BAR)), Number(1))>>,
      <<ReturnStatement(BinaryOp("Dot", Identifier(FOO), Identifier(BAR)))>>,
      <<LetStatement(LOCAL_V, VECTOR, New(VECTOR, << >>)),
        AssignmentStatement(BinaryOp("Dot", Identifier(LOCAL_V), Identifier(<<"x">>)),
                            Number(1))>>,
      <<LetStatement(LOCAL_V, VECTOR, New(VECTOR, << >>)),
        ReturnStatement(BinaryOp("Dot", Identifier(LOCAL_V), Identifier(<<"x">>)))>>,
      <<IfStatement(BinaryOp("Lt", Number(1), Number(2)), <<ReturnStatement(Number(1))>>,
                    << >>)>>,
      <<ExprStatement>>,
      <<ReturnStatement(Bool(TRUE))>>,
      <<ReturnStatement(Identifier(BAR))>>,
      <<LetStatement(LOCAL_V, FOO, Number(1))>> }
    \cup
    { <<ReturnStatement(BinaryOp(o, Number(6), Number(3)))>> : o \in OtherOps }

\* one class V with the instance field x and a static method of such a body
UnhandledModules ==
    { <<ClassDecl(VECTOR, <<FieldDecl("Instance", <<"x">>, NUMBER)>>,
                  <<MethodDecl("Static", <<"f">>, << >>, NUMBER, block)>>, << >>)>> :
        block \in UnhandledBodies }

\* integer literals: small ones, the largest 16-bit number and numbers past it
Literals == {0, 7, 65535, 65536, 65541, 131072, 200000}

\* bodies that return a literal or the sum of two
LiteralBodies ==
    { <<ReturnStatement(Number(n))>> : n \in Literals }
    \cup
    { <<ReturnStatement(BinaryOp("Plus", Number(n), Number(m)))>> : n, m \in Literals }

\* one class V with a static method of such a body
LiteralModules ==
    { <<ClassDecl(VECTOR, << >>,
                  <<MethodDecl("Static", <<"f">>, << >>, NUMBER, block)>>, << >>)>> :
        block \in LiteralBodies }

Modules ==
    ConstructorModules \cup FieldModules \cup LoopModules \cup MethodModules
    \cup UnhandledModules \cup LiteralModules

MODULE_FILE == "V.vm"

CompileInit ==
    /\ EmulatorInit({NoProgram})
    /\ NoFile
    /\ NoNative
    /\ module \in Modules
    /\ compiled = NotCompiled

\* fun::compile on the module
Compile ==
    /\ compiled = NotCompiled
    /\ \E r \in {ModuleCompiler_compile(module)} : compiled' = r
    /\ UNCHANGED module
    /\ UNCHANGED <<emulator_vars, parser_vars, native_vars>>

\* the tokens of the module as the one file of a program
LoadCompiled ==
    /\ compiled.res = "ok"
    /\ input = NoProgram
    /\ \E in \in {Input(<<File(MODULE_FILE, compiled.tokens)>>, NoInternals)} :
         /\ input' = in
         /\ \E p \in {VMProgram_with_internals(in.files, in.internals)} : program' = p
    /\ UNCHANGED <<ram, call_stack, step_counter, op, result, prev, calls, host_calls>>
    /\ UNCHANGED <<parser_vars, compiler_vars, native_vars>>

CompileNext == Compile \/ LoadCompiled

CompileSpec == CompileInit /\ [][CompileNext]_vars

(***************************************************************************)
(* codegen.rs: the x86-64 back end, by what the instructions it emits for  *)
(* a token do.  Programs of one function, Sys.init, without locals, whose  *)
(* tokens use the constant and temp segments: hack_sys_init calls sys.init *)
(* and the value sys.init leaves in rax is the return code.                *)
(***************************************************************************)
\* after test_if_goto: the comparison decides the branch
IfGotoTest(condition) ==
    <<Function("Sys.init", 0), Push("constant", 100), Push("constant", 10),
      Push("constant", 12), Arith(condition), IfGoto("THE_END"), Push("constant", 12),
      Label("THE_END"), Push("constant", 5), Arith("add"), Return>>

\* a value that is pushed, negated or complemented decides the branch
IfGotoValue(v, change, middle) ==
    <<Function("Sys.init", 0), Push("constant", 100), Push("constant", v)>> \o change
      \o <<IfGoto("L")>> \o middle \o <<Label("L"), Push("constant", 5), Arith("add"), Return>>

NativeValues == {0, 1, 2, 65535}

NativePrograms ==
    { Input(<<File("Sys.vm", IfGotoTest(condition))>>, NoInternals) :
        condition \in {"gt", "lt", "eq"} }
      \cup
    { Input(<<File("Sys.vm", IfGotoValue(v, change, middle))>>, NoInternals) :
        v \in NativeValues,
        change \in {<< >>, <<Arith("not")>>, <<Arith("neg")>>,
                    <<Pop("temp", 7), Push("temp", 7)>>},
        middle \in {<< >>, <<Push("constant", 12)>>,
                    <<Push("constant", 12), Arith("sub"), Push("constant", 1), Goto("L")>>} }

NativeTokens == input.files[1].tokens

\* the token `.label:` of the function
LabelPosition(name) ==
    CHOOSE k \in 1..Len(NativeTokens) :
        NativeTokens[k].op = "label" /\ NativeTokens[k].name = name

Undefined(n) == [n EXCEPT !.status = "undefined"]

NativePush(n, value) == [n EXCEPT !.stack = Append(@, value)]

NativePop(n) == [n EXCEPT !.stack = SubSeq(@, 1, Len(@) - 1)]

NativeTop(n) == n.stack[Len(n.stack)]

\* lines 151-159: enter 0,0 opens the frame
asm_function(n) == [n EXCEPT !.stack = << >>]

\* lines 118-149
asm_push(n, segment, index) ==
    CASE segment = "constant" -> NativePush(n, index)
      [] segment = "temp" ->
           IF index < TEMP_LEN THEN NativePush(n, n.temp[index]) ELSE Undefined(n)

\* lines 78-116; a pop with nothing pushed takes a cell of the frame
asm_pop(n, segment, index) ==
    IF n.stack = << >> THEN Undefined(n)
    ELSE CASE segment = "temp" ->
                IF index < TEMP_LEN
                THEN [NativePop(n) EXCEPT !.temp[index] = NativeTop(n)]
                ELSE Undefined(n)

\* lines 8-76: the first pop takes the top, a; the second takes b
asm_arithmetic(n, operation) ==
    IF operation \in {"neg", "not"}
    THEN IF n.stack = << >> THEN Undefined(n)
         ELSE NativePush(NativePop(n),
                         IF operation = "neg" THEN 0 - NativeTop(n) ELSE -NativeTop(n) - 1)
    ELSE IF Len(n.stack) < 2 THEN Undefined(n)
         ELSE LET a == NativeTop(n)
                  b == NativeTop(NativePop(n))
              IN  NativePush(NativePop(NativePop(n)),
                             CASE operation = "add" -> a + b
                               [] operation = "sub" -> b - a
                               [] operation = "and" -> BitAnd(a, b)
                               [] operation = "or"  -> BitOr(a, b)
                               [] operation = "eq"  -> IF a = b THEN -1 ELSE 0
                               [] operation = "gt"  -> IF b > a THEN -1 ELSE 0
                               [] operation = "lt"  -> IF b < a THEN -1 ELSE 0)

\* lines 309-318: pop rax; cmp rax, 0; jne .label
asm_if(n, name) ==
    IF n.stack = << >> THEN Undefined(n)
    ELSE LET rax == NativeTop(n)
         IN  [NativePop(n) EXCEPT !.rax = rax,
                                  !.pc = IF rax # 0 THEN LabelPosition(name) ELSE @,
                                  !.last = [op |-> "if-goto", popped |-> rax,
                                            jumped |-> rax # 0],
                                  !.tested = @ \cup {rax}]

\* lines 184-190: pop rax; leave; ret
asm_return(n) ==
    IF n.stack = << >> THEN Undefined(n)
    ELSE [NativePop(n) EXCEPT !.rax = NativeTop(n), !.status = "returned"]

\* lines 288-320: the instructions of the token at pc, which then stands
\* behind the token unless they jumped
asm_command(n, token) ==
    LET at == [n EXCEPT !.pc = @ + 1, !.last = [NoCommand EXCEPT !.op = token.op]]
    IN  CASE token.op = "function" -> asm_function(at)
          [] token.op = "return" -> asm_return(at)
          [] token.op = "push" -> asm_push(at, token.seg, token.idx)
          [] token.op = "pop" -> asm_pop(at, token.seg, token.idx)
          [] token.op \in ArithOps -> asm_arithmetic(at, token.op)
          [] token.op = "label" -> at
          [] token.op = "goto" -> [at EXCEPT !.pc = LabelPosition(token.name)]
          [] token.op = "if-goto" -> asm_if(at, token.name)

NativeInit ==
    /\ NoFile /\ NoModule /\ NoNative
    /\ EmulatorInit(NativePrograms)

\* hack_sys_init: call sys.init
NativeStart ==
    /\ native.status = "none"
    /\ native' = [native EXCEPT !.status = "running", !.pc = 1]
    /\ UNCHANGED <<emulator_vars, parser_vars, compiler_vars>>

\* the compiled program executes the instructions of one token
NativeStep ==
    /\ native.status = "running"
    /\ native.pc <= Len(NativeTokens)
    /\ \E n \in {asm_command(native, NativeTokens[native.pc])} : native' = n
    /\ UNCHANGED <<emulator_vars, parser_vars, compiler_vars>>

\* the interpreter and the compiled program run the same tokens
NativeNext == Start \/ HostStep \/ NativeStart \/ NativeStep

NativeSpec == NativeInit /\ [][NativeNext]_vars

(***************************************************************************)
(* What the last host call did, read from the state before it (prev).      *)
(***************************************************************************)
Before == [ram |-> prev.ram, call_stack |-> prev.call_stack]

LastCommand == next_command(Before)

\* the last host call was a step that executed a command of this kind
StepDid(kind) ==
    /\ op.name = "step"
    /\ LastCommand.some /\ LastCommand.ok
    /\ LastCommand.command.op = kind

StepOk(kind) == StepDid(kind) /\ result.kind = "Continue"

\* the last step was a successful return from a called frame
Returned == StepOk("Return") /\ Len(prev.call_stack) > 1

\* what the call that created the frame returned from saved and set
ReturnedFrom == prev.calls[Len(prev.call_stack)]

\* SP at the call minus the number of arguments
ARG_of_F == ReturnedFrom.sp - ReturnedFrom.num_args

\* the value the callee had on top of its stack
ReturnValue == Read(prev.ram, Read(prev.ram, SP) - 1)

OneResultAtArg == Read(ram, SP) = ARG_of_F + 1 /\ Read(ram, ARG_of_F) = ReturnValue

(***************************************************************************)
(* C1 as stated: after every return from a called function F, SP is        *)
(* ARG_of_F + 1 and RAM[ARG_of_F] holds the value F had on top of its      *)
(* stack, where ARG_of_F is SP at the call minus the number of arguments.  *)
(***************************************************************************)
ReturnReplacesArguments == Returned => OneResultAtArg

\* the ARG cell still holds what the call set, and the arguments are cells
\* of the global stack
ArgKept == Read(prev.ram, ARG) = ReturnedFrom.arg_set /\ ARG_of_F >= STACK_BASE

(***************************************************************************)
(* C1 amended: after a return from a called function F whose ARG cell      *)
(* still holds the value the call set and whose n arguments were cells of  *)
(* the global stack (ARG_of_F >= 256), SP is ARG_of_F + 1 and RAM[ARG_of_F]*)
(* holds the value F had on top of its stack.                              *)
(***************************************************************************)
ReturnReplacesKeptArguments == Returned /\ ArgKept => OneResultAtArg

\* a function called with two arguments has returned and left one result
ReturnedWithTwoArguments ==
    Returned /\ ArgKept /\ ReturnedFrom.num_args = 2 /\ OneResultAtArg

\* the cells the call pushed still hold what it pushed
SavedCellsKept ==
    \A j \in 1..SAVED_CELLS :
        Read(prev.ram, ReturnedFrom.sp + j - 1) = ReturnedFrom.saved[j]

CallerPointersRestored ==
    /\ Read(ram, LCL) = ReturnedFrom.lcl
    /\ Read(ram, ARG) = ReturnedFrom.arg
    /\ Read(ram, THIS) = ReturnedFrom.this
    /\ Read(ram, THAT) = ReturnedFrom.that

(***************************************************************************)
(* C2 as stated: after a callee returns, RAM[1..4] hold the caller's LCL,  *)
(* ARG, THIS and THAT of the moment of the call, provided the five cells   *)
(* the call saved on the global stack were not overwritten.                *)
(***************************************************************************)
ReturnRestoresCaller == Returned /\ SavedCellsKept => CallerPointersRestored

LclKept == Read(prev.ram, LCL) = ReturnedFrom.lcl_set

(***************************************************************************)
(* C2 amended: after a callee returns, RAM[1..4] hold the caller's LCL,    *)
(* ARG, THIS and THAT of the moment of the call, provided the five saved   *)
(* cells were not overwritten and the LCL cell still holds the value the   *)
(* call set.                                                               *)
(***************************************************************************)
ReturnRestoresCallerWhenLclKept ==
    Returned /\ SavedCellsKept /\ LclKept => CallerPointersRestored

\* a callee that assigned pointer 0 has returned to a caller whose THIS and
\* THAT differ
ReturnedOverAssignedPointer ==
    /\ Returned /\ SavedCellsKept /\ LclKept
    /\ ReturnedFrom.this # ReturnedFrom.that
    /\ Read(prev.ram, THIS) # ReturnedFrom.this
    /\ CallerPointersRestored

\* the value the return step popped as the return index
PoppedReturnIndex == exec_return(Before).val

CalleeFramePopped ==
    /\ Len(call_stack) = Len(prev.call_stack) - 1
    /\ \A d \in 1..Len(call_stack) - 1 : call_stack[d] = prev.call_stack[d]
    /\ Top(call_stack).function = prev.call_stack[Len(call_stack)].function

(***************************************************************************)
(* C3 as stated: on every return from a called frame the callee's frame is *)
(* popped and the caller resumes at the value the return popped from the   *)
(* global stack as the return index.                                       *)
(***************************************************************************)
ReturnResumesAtPoppedIndex ==
    Returned => CalleeFramePopped /\ Top(call_stack).index = PoppedReturnIndex

(***************************************************************************)
(* C3 amended: on every return from a called frame the callee's frame is   *)
(* popped and the caller resumes at the command after its call (the index  *)
(* the call step pushed), whatever value the return pops from the stack.   *)
(***************************************************************************)
ReturnResumesAfterCall ==
    Returned =>
        /\ CalleeFramePopped
        /\ Top(call_stack).index = ReturnedFrom.return_index
        /\ Top(call_stack).index = prev.call_stack[Len(call_stack)].index + 1

\* a return that popped something else than the index the call pushed
ReturnedOverOverwrittenIndex ==
    Returned /\ PoppedReturnIndex # ReturnedFrom.return_index

\* the top of the stack before the last step
TopBefore == Read(prev.ram, Read(prev.ram, SP) - 1)

\* the last step left every cell but SP as it was
OnlySpWritten == Write(ram, SP, Read(prev.ram, SP)) = prev.ram

(***************************************************************************)
(* C4: a step that executes return with only the bottom frame on the call  *)
(* stack reports Halted(v) with v = RAM[SP-1] and leaves RAM and the call  *)
(* stack as they were; a run that succeeds yields that v.                  *)
(***************************************************************************)
BottomReturnHalts ==
    /\ StepDid("Return") /\ Len(prev.call_stack) = 1 =>
          /\ result.kind = "Halted"
          /\ result.value = TopBefore
          /\ ram = prev.ram /\ call_stack = prev.call_stack
    /\ op.name = "run" /\ result.kind = "Ok" =>
          /\ Len(call_stack) = 1
          /\ next_command(Machine).command.op = "Return"
          /\ result.value = Read(ram, Read(ram, SP) - 1)

(***************************************************************************)
(* C5: a step that executes If(target) pops exactly one value v (SP and    *)
(* the frame's stack size go down by one, no other cell changes) and sets  *)
(* the frame's index to target if v = -1 and to index + 1 for every other  *)
(* v.                                                                      *)
(***************************************************************************)
IfBranchesOnMinusOne ==
    StepOk("If") =>
        /\ Read(ram, SP) = Read(prev.ram, SP) - 1
        /\ OnlySpWritten
        /\ Len(call_stack) = Len(prev.call_stack)
        /\ Top(call_stack) =
             [Top(prev.call_stack) EXCEPT
                !.stack_size = @ - 1,
                !.index = IF TopBefore = -1 THEN LastCommand.command.index ELSE @ + 1]

\* an If that popped -1 and jumped away from the next command
IfJumped ==
    /\ StepOk("If") /\ TopBefore = -1
    /\ LastCommand.command.index # Top(prev.call_stack).index + 1
    /\ Top(call_stack).index = LastCommand.command.index

\* init or a step has succeeded
Succeeded ==
    \/ op.name = "init" /\ result.kind = "Ok"
    \/ op.name = "step" /\ result.kind \in {"Continue", "Halted"}

(***************************************************************************)
(* C6: in every state reached from init by successful steps the global     *)
(* stack pointer RAM[0] is at least 256.                                   *)
(***************************************************************************)
StackPointerAtLeastBase == Succeeded => Read(ram, SP) >= STACK_BASE

\* the address the last step wrote through the local segment (16 when it
\* wrote none)
LocalWritten ==
    LET c == LastCommand.command
    IN  IF StepOk("Pop") /\ c.seg = "local"
        THEN segment_address(Before, "local", c.idx).addr
        ELSE IF StepOk("CopySeg") /\ c.to_segment = "local"
             THEN segment_address(Before, "local", c.to_index).addr
             ELSE STATIC_BASE

(***************************************************************************)
(* C7: after the Function(_, k) command of any frame, the bottom one       *)
(* included, RAM[LCL] + k = SP and local 0..k-1 are 0; a step that pops to *)
(* local i writes none of the reserved cells RAM[0..15].                   *)
(***************************************************************************)
LocalsAreTheZeroCellsPushed ==
    /\ StepOk("Function") =>
          /\ Read(ram, LCL) + LastCommand.command.n = Read(ram, SP)
          /\ \A i \in 0..LastCommand.command.n - 1 : Read(ram, Read(ram, LCL) + i) = 0
    /\ LocalWritten >= STATIC_BASE

\* the file whose function executed the last step
FileBefore == program.files[Top(prev.call_stack).function.file_index + 1]

StaticCell(file, i) == STATIC_BASE + file.static_offset + i

StaticSlice(file) == {StaticCell(file, i) : i \in 0..file.num_statics - 1}

\* the slices follow one another from cell 16 on, in file order
StaticLayout ==
    /\ program.files[1].static_offset = 0
    /\ \A a \in 1..Len(program.files) - 1 :
          program.files[a + 1].static_offset
            = program.files[a].static_offset + program.files[a].num_statics
    /\ \A a, b \in 1..Len(program.files) :
          a # b => StaticSlice(program.files[a]) \cap StaticSlice(program.files[b]) = {}

\* the last step left every cell but SP and cell a as it was
OnlyWritten(a) ==
    Write(Write(ram, SP, Read(prev.ram, SP)), a, Read(prev.ram, a)) = prev.ram

\* what a successful step that named static i did to RAM
StaticAccess ==
    LET c == LastCommand.command
    IN  /\ StepOk("Pop") /\ c.seg = "static" =>
              /\ Read(ram, StaticCell(FileBefore, c.idx)) = TopBefore
              /\ OnlyWritten(StaticCell(FileBefore, c.idx))
        /\ StepOk("CopySeg") /\ c.to_segment = "static" =>
              /\ Read(ram, StaticCell(FileBefore, c.to_index))
                   = source_value(Before, c.from_segment, c.from_index).value
              /\ OnlyWritten(StaticCell(FileBefore, c.to_index))
        /\ StepOk("Push") /\ c.seg = "static" =>
              Read(ram, Read(prev.ram, SP)) = Read(prev.ram, StaticCell(FileBefore, c.idx))
        /\ StepOk("CopySeg") /\ c.from_segment = "static" =>
              Read(ram, segment_address(Before, c.to_segment, c.to_index).addr)
                = Read(prev.ram, StaticCell(FileBefore, c.from_index))

\* the last step wrote a static
WroteStatic ==
    \/ StepOk("Pop") /\ LastCommand.command.seg = "static"
    \/ StepOk("CopySeg") /\ LastCommand.command.to_segment = "static"

OtherStaticsKept ==
    WroteStatic =>
        \A b \in 1..Len(program.files) :
            program.files[b] # FileBefore =>
                \A a \in StaticSlice(program.files[b]) : Read(ram, a) = Read(prev.ram, a)

(***************************************************************************)
(* C8: the static slices [16 + static_offset, 16 + static_offset +         *)
(* num_statics) of the files are pairwise disjoint and contiguous in file  *)
(* order; a push or pop of static i in a function of file A accesses       *)
(* RAM[16 + A.static_offset + i]; writing a static of A changes no static  *)
(* of another file.                                                        *)
(***************************************************************************)
StaticsArePerFile == program.ok => StaticLayout /\ StaticAccess /\ OtherStaticsKept

\* a file that is not the first wrote a new value into its static while
\* another file's static held a value
WroteStaticBesideAnother ==
    /\ program.ok /\ WroteStatic
    /\ FileBefore.static_offset > 0
    /\ \E i \in 0..FileBefore.num_statics - 1 :
          Read(ram, StaticCell(FileBefore, i)) # Read(prev.ram, StaticCell(FileBefore, i))
    /\ \E b \in 1..Len(program.files) :
          /\ program.files[b] # FileBefore
          /\ \E a \in StaticSlice(program.files[b]) : Read(ram, a) # 0

\* the emulator can take a step and its next command is a fused pair
AtCopySeg ==
    /\ program.ok /\ call_stack # << >>
    /\ op.name \in {"init", "step"} /\ result.kind \in {"Ok", "Continue"}
    /\ next_command(Machine).ok
    /\ next_command(Machine).command.op = "CopySeg"

Fused ==
    LET c == next_command(Machine).command
    IN  exec_copy_seg(Machine, c.from_segment, c.from_index, c.to_segment, c.to_index)

\* the push and then the pop of the pair
Unfused ==
    LET c == next_command(Machine).command
        p == exec_push(Machine, c.from_segment, c.from_index)
    IN  IF p.res # "ok" THEN p ELSE exec_pop(p.m, c.to_segment, c.to_index)

(***************************************************************************)
(* C9 as stated: in every state, executing the fused CopySeg gives the     *)
(* same RAM (all cells), SP, frame and outcome as executing the push and   *)
(* then the pop.                                                           *)
(***************************************************************************)
FusionIsExact == AtCopySeg => Fused.res = Unfused.res /\ Fused.m = Unfused.m

SpInStack == Read(ram, SP) >= STACK_BASE /\ Read(ram, SP) < RAM_SIZE

\* the two agree but for the cell at the old SP, where the push left the
\* value
SameButScratch ==
    /\ Fused.res = Unfused.res
    /\ Fused.res = "ok" =>
          /\ Fused.m.call_stack = Unfused.m.call_stack
          /\ Write(Unfused.m.ram, Read(ram, SP), Read(Fused.m.ram, Read(ram, SP)))
               = Fused.m.ram
          /\ Read(Unfused.m.ram, Read(ram, SP))
               = LET c == next_command(Machine).command
                 IN  source_value(Machine, c.from_segment, c.from_index).value

(***************************************************************************)
(* C9 amended: in every state with 256 <= SP < 24577, the fused CopySeg    *)
(* and the push followed by the pop both succeed or both fail, and when    *)
(* they succeed they give the same frame, the same SP and the same RAM     *)
(* except for the cell at the old SP, the first free stack cell, in which  *)
(* the push leaves the copied value and which CopySeg does not write.      *)
(***************************************************************************)
FusionIsExactButScratch == AtCopySeg /\ SpInStack => SameButScratch

\* a fused pair about to copy a value that the push would leave in a cell
\* CopySeg keeps as it is
FusedLeavesScratch ==
    /\ AtCopySeg /\ SpInStack /\ Fused.res = "ok" /\ Unfused.res = "ok"
    /\ Read(Unfused.m.ram, Read(ram, SP)) # Read(Fused.m.ram, Read(ram, SP))
    /\ SameButScratch

\* run was the first call on a new emulator
FreshRun == op.name = "run" /\ host_calls = 1 /\ prev.step_counter = 0

(***************************************************************************)
(* C10: run(max_steps) on a fresh emulator executes at most max_steps      *)
(* steps, and when it fails with the step-budget error it has executed     *)
(* exactly max_steps steps.                                                *)
(***************************************************************************)
RunKeepsBudget ==
    FreshRun =>
        /\ step_counter <= op.max_steps
        /\ result.kind = "Err" /\ result.why = "StepBudget" => step_counter = op.max_steps

(***************************************************************************)
(* The function table, read against the files and the intrinsics given.    *)
(***************************************************************************)
IntrinsicNames == {input.internals[i].name : i \in 1..Len(input.internals)}

IntrinsicRef(name) ==
    input.internals[CHOOSE i \in 1..Len(input.internals) :
                      input.internals[i].name = name].ref

\* the places <<file, position>> at which the files declare the name
DeclarationsOf(name) ==
    {<<fi, k>> \in UNION {{fi} \X (1..Len(input.files[fi].tokens)) :
                            fi \in 1..Len(input.files)} :
       LET t == input.files[fi].tokens[k] IN t.op = "function" /\ t.name = name}

NamesInCode ==
    UNION {{input.files[fi].tokens[k].name :
              k \in {j \in 1..Len(input.files[fi].tokens) :
                       input.files[fi].tokens[j].op = "function"}} :
             fi \in 1..Len(input.files)}

\* the index of the function declared at position k of file fi, in its file
FunctionIndexAt(fi, k) ==
    Cardinality({j \in 1..(k - 1) : input.files[fi].tokens[j].op = "function"})

CallsOf(seq) == SelectSeq(seq, LAMBDA t : t.op \in {"call", "Call"})

\* the calls of the loaded function, beside the call tokens they came from
CallSites ==
    UNION {{[token |-> CallsOf(GroupByBound(input.files[fi].tokens, 1)[fj])[c],
             command |-> CallsOf(program.files[fi].functions[fj].commands)[c]] :
              c \in 1..Len(CallsOf(program.files[fi].functions[fj].commands))} :
             <<fi, fj>> \in UNION {{fi} \X (1..Len(program.files[fi].functions)) :
                                     fi \in 1..Len(program.files)}}

IntrinsicsShadowCode ==
    /\ \A n \in IntrinsicNames :
         n \in DOMAIN program.function_table /\ program.function_table[n] = IntrinsicRef(n)
    /\ \A s \in CallSites :
         s.token.name \in IntrinsicNames => s.command.fn = IntrinsicRef(s.token.name)
    /\ program.warnings =
         Cardinality({s \in CallSites : s.token.name \notin IntrinsicNames \cup NamesInCode})

CodeNamesResolve ==
    \A n \in NamesInCode \ IntrinsicNames :
       /\ n \in DOMAIN program.function_table
       /\ \E d \in DeclarationsOf(n) :
            /\ DeclarationsOf(n) = {d}
            /\ program.function_table[n] = InCode(d[1] - 1, FunctionIndexAt(d[1], d[2]))

DeclaredTwice(names) == \E n \in names : Cardinality(DeclarationsOf(n)) > 1

DuplicateFails == ~program.ok /\ program.err = "DuplicateFunction"

\* C11 as stated: after a successful load every intrinsic name maps to its
\* Internal id, also when code declares the name, and calls to it resolve
\* to that reference without a warning; every other declared name maps to
\* the InCode reference of its single declaration; a name declared twice
\* in code makes the load fail with the duplicate-function error.
FunctionTableResolves ==
    /\ program.ok => IntrinsicsShadowCode /\ CodeNamesResolve
    /\ DeclaredTwice(NamesInCode) => DuplicateFails

DistinctIds ==
    \A i, j \in 1..Len(input.internals) :
       input.internals[i].ref = input.internals[j].ref => i = j

FilesStartWithFunction ==
    \A fi \in 1..Len(input.files) :
       Len(input.files[fi].tokens) > 0 /\ input.files[fi].tokens[1].op = "function"

\* C11 amended: the same, with the intrinsic names and the calls to them
\* resolved as stated when the ids of the intrinsics are pairwise
\* distinct, and with the failure only for a twice-declared name that is
\* not an intrinsic: the load then fails, and with the duplicate-function
\* error when every file starts with a function declaration.
FunctionTableResolvesDistinct ==
    /\ program.ok => (DistinctIds => IntrinsicsShadowCode) /\ CodeNamesResolve
    /\ DeclaredTwice(NamesInCode \ IntrinsicNames) =>
         ~program.ok /\ (FilesStartWithFunction => DuplicateFails)

\* an intrinsic that code declares twice, beside a name declared once,
\* loaded and called
LoadedShadowedTwice ==
    /\ program.ok /\ DistinctIds
    /\ Cardinality(DeclarationsOf("Math.multiply")) = 2
    /\ "Math.multiply" \in IntrinsicNames
    /\ Cardinality(DeclarationsOf("Main.f")) = 1
    /\ \E s \in CallSites : s.token.name = "Math.multiply"

(***************************************************************************)
(* Calls to names that nothing declares.                                   *)
(***************************************************************************)
\* the call sites whose name is neither an intrinsic nor declared in code
UnresolvedSites == {s \in CallSites : s.token.name \notin IntrinsicNames \cup NamesInCode}

UnresolvedCallsWarn ==
    /\ program.warnings = Cardinality(UnresolvedSites)
    /\ \A s \in UnresolvedSites : s.command.fn = InCode(MISSING_FILE, MISSING_FUNC)

\* the last step executed a call that the loader could not resolve
ReachedUnresolvedCall ==
    /\ StepDid("Call")
    /\ LastCommand.command.fn = InCode(MISSING_FILE, MISSING_FUNC)
    /\ Len(program.files) <= MISSING_FILE

\* C12: a program with a call to a name that is neither an intrinsic nor
\* declared loads with one warning per such call site; the step that
\* reaches the call returns an error, and no frame is entered.
UnresolvedCallFails ==
    /\ (program.ok /\ UnresolvedSites # {}) => UnresolvedCallsWarn
    /\ ReachedUnresolvedCall => result.kind = "Err" /\ call_stack = prev.call_stack

(***************************************************************************)
(* Branches to labels.                                                     *)
(***************************************************************************)
Positions == UNION {{fi} \X (1..Len(input.files[fi].tokens)) : fi \in 1..Len(input.files)}

TokenAt(p) == input.files[p[1]].tokens[p[2]]

\* two positions of one file lie in the same function
SameFunction(p, q) ==
    p[1] = q[1] /\ FunctionIndexAt(p[1], p[2] + 1) = FunctionIndexAt(q[1], q[2] + 1)

Declares(q, label) == TokenAt(q).op = "label" /\ TokenAt(q).name = label

\* a goto or if-goto whose label its own function does not declare
Dangling(p) ==
    /\ TokenAt(p).op \in {"goto", "if-goto"}
    /\ ~\E q \in Positions : SameFunction(p, q) /\ Declares(q, TokenAt(p).name)

\* C13: when a goto or an if-goto names a label that its own function does
\* not declare, the build fails and gives no program, also when another
\* function declares the label.
UnresolvedBranchFails == (\E p \in Positions : Dangling(p)) => ~program.ok

\* a build that failed on a branch to a label only another function declares
FailedOnLabelOfOtherFunction ==
    /\ ~program.ok /\ program.err = "UnresolvedLabel"
    /\ \E p, q \in Positions :
         Dangling(p) /\ Declares(q, TokenAt(p).name) /\ ~SameFunction(p, q)

(***************************************************************************)
(* Steps on states that are not well formed.                               *)
(***************************************************************************)
FrameBefore == Top(prev.call_stack)

\* the index lies outside the segment, by the sizes the program declares
IndexOutside(segment, index) ==
    CASE segment = "local" -> index >= get_vmfunction(FrameBefore.function).num_locals
      [] segment = "argument" -> index >= FrameBefore.num_args
      [] segment = "static" -> index >= get_file(FrameBefore.function).num_statics
      [] segment = "temp" -> index > 7
      [] segment = "pointer" -> index > 1
      [] OTHER -> FALSE

IllFormed(command) ==
    CASE command.op = "Pop" ->
           \/ FrameBefore.stack_size = 0
           \/ command.seg = "constant"
           \/ IndexOutside(command.seg, command.idx)
      [] command.op = "Push" -> IndexOutside(command.seg, command.idx)
      [] command.op = "CopySeg" ->
           \/ command.to_segment = "constant"
           \/ IndexOutside(command.from_segment, command.from_index)
           \/ IndexOutside(command.to_segment, command.to_index)
      [] command.op = "Call" -> command.fn.kind = "Internal" /\ command.fn.id \notin {0, 1}
      [] OTHER -> FALSE

SteppedIllFormed ==
    /\ op.name = "step"
    /\ LastCommand.some /\ LastCommand.ok
    /\ IllFormed(LastCommand.command)

\* C14: a step on a pop without operand, on an index outside its segment,
\* on a pop to constant or on a call of an unknown intrinsic returns an
\* error value; it never aborts.
StepReportsIllFormed == SteppedIllFormed => result.kind = "Err"

(***************************************************************************)
(* Arithmetic.                                                             *)
(***************************************************************************)
SpBefore == Read(prev.ram, SP)

\* a, popped first, and b, popped second
PoppedA == Read(prev.ram, SpBefore - 1)

PoppedB == Read(prev.ram, SpBefore - 2)

Pushed == Read(ram, Read(ram, SP) - 1)

Operation == LastCommand.command.operation

Unary == Operation \in {"neg", "not"}

\* the frame and the stack hold the operands the command pops
OperandsPopped ==
    LET n == IF Unary THEN 1 ELSE 2
    IN  /\ FrameBefore.stack_size >= n
        /\ SpBefore - n >= STACK_BASE
        /\ SpBefore <= RAM_SIZE

\* bit k of a two's complement number, for k below the sign bit
Bit(x, k) == (x \div 2^k) % 2

BitsBelowSign == 0..30

IsAnd(r, b, a) ==
    /\ r < 0 <=> (b < 0 /\ a < 0)
    /\ \A k \in BitsBelowSign : Bit(r, k) = 1 <=> (Bit(b, k) = 1 /\ Bit(a, k) = 1)

IsOr(r, b, a) ==
    /\ r < 0 <=> (b < 0 \/ a < 0)
    /\ \A k \in BitsBelowSign : Bit(r, k) = 1 <=> (Bit(b, k) = 1 \/ Bit(a, k) = 1)

IsComplement(r, a) ==
    /\ r < 0 <=> a >= 0
    /\ \A k \in BitsBelowSign : Bit(r, k) # Bit(a, k)

\* r is the number the operation has on b and a (on a alone when unary)
IsResult(r, b, a) ==
    CASE Operation = "add" -> ~AddOverflows(b, a) /\ r = b + a
      [] Operation = "sub" -> ~SubOverflows(b, a) /\ r = b - a
      [] Operation = "and" -> IsAnd(r, b, a)
      [] Operation = "or"  -> IsOr(r, b, a)
      [] Operation = "eq"  -> r = IF b = a THEN -1 ELSE 0
      [] Operation = "lt"  -> r = IF b < a THEN -1 ELSE 0
      [] Operation = "gt"  -> r = IF b > a THEN -1 ELSE 0
      [] Operation = "neg" -> a # I32_MIN /\ r = -a
      [] Operation = "not" -> IsComplement(r, a)

ArithmeticDone ==
    /\ result.kind = "Continue"
    /\ IsResult(Pushed, PoppedB, PoppedA)
    /\ Read(ram, SP) = IF Unary THEN SpBefore ELSE SpBefore - 1

\* C15 as stated: an arithmetic command that pops a and then b pushes
\* b+a, b-a, b&a, b|a, -1 or 0 for eq, lt and gt, -a for neg and the
\* complement of a for not; a binary command lowers SP by one and a unary
\* command leaves it.
ArithmeticComputes == StepDid("Arithmetic") /\ OperandsPopped => ArithmeticDone

InRange ==
    IF Unary THEN ~Overflows(Operation, PoppedA, 0)
    ELSE ~Overflows(Operation, PoppedB, PoppedA)

\* C15 amended: the same for add, sub and neg when b+a, b-a and -a lie in
\* the range of a signed 32-bit cell.
ArithmeticComputesInRange ==
    StepDid("Arithmetic") /\ OperandsPopped /\ InRange => ArithmeticDone

\* a subtraction that gave the smallest i32
SubtractedToTheSmallest ==
    /\ StepOk("Arithmetic") /\ OperandsPopped
    /\ Operation = "sub" /\ PoppedB < 0 /\ PoppedA > 0
    /\ Pushed = I32_MIN

(***************************************************************************)
(* Texts.                                                                  *)
(***************************************************************************)
\* the whole stream has been written and the text read to its end
ReadBack == stream # << >> /\ written = Len(stream) /\ parsed = "ok"

\* C16: a token stream written one token per line and tokenized again
\* gives the same stream, and no line of it fails to parse.
WrittenStreamReadsBack ==
    stream # << >> =>
      /\ parsed \in {"writing", "parsing", "ok"}
      /\ parsed = "ok" => tokens_read = stream

\* a function of five tokens, with a label, a goto and two indexes, read back
ReadBackFunction ==
    /\ ReadBack
    /\ Len(stream) = 5
    /\ \E i, j \in 1..Len(stream) : stream[i].op = "label" /\ stream[j].op = "pop"

\* the lines parse_lines has consumed
Consumed == SubSeq(lines(text), 1, line_index)

\* the trimmed line begins with two slashes
IsCommentLine(line) ==
    LET trimmed == split_whitespace(line)
    IN  trimmed # << >> /\ Len(trimmed[1]) >= 2 /\ SubSeq(trimmed[1], 1, 2) = <<"/", "/">>

IsBlankLine(line) == \A i \in 1..Len(line) : line[i] \in WHITESPACE

Silent(line) == IsCommentLine(line) \/ IsBlankLine(line)

\* C17: a line whose trimmed text begins with two slashes, and a blank
\* line, gives no error and no token: the last line consumed did not fail
\* if it is such a line, and there are no more tokens than other lines.
CommentLinesYieldNothing ==
    parsed # "writing" /\ line_index > 0 =>
      /\ Silent(Consumed[line_index]) => parsed \in {"parsing", "ok"}
      /\ Len(tokens_read) <= Cardinality({i \in 1..line_index : ~Silent(Consumed[i])})

(***************************************************************************)
(* The compiler.                                                           *)
(***************************************************************************)
CompiledClass == module[1]

HasConstructor == module # << >> /\ CompiledClass.constructor # << >>

ConstructorDecl == CompiledClass.constructor[1]

\* the instance fields of the class in source order
InstanceFields == SelectSeq(CompiledClass.fields, LAMBDA field : field.scope = "Instance")

InstanceFieldIndex(field_name) ==
    (CHOOSE i \in 1..Len(InstanceFields) : InstanceFields[i].name = field_name) - 1

LetsOf(block) == SelectSeq(block, LAMBDA statement : statement.statement = "Let")

LetIndex(block, name) ==
    (CHOOSE i \in 1..Len(LetsOf(block)) : LetsOf(block)[i].name = name) - 1

ParameterNames == { ConstructorDecl.parameters[i].name : i \in 1..Len(ConstructorDecl.parameters) }

\* the ways to give every parameter name the position of a parameter of
\* that name, counted from 0
ParameterPositions ==
    { at \in [ParameterNames -> 0..(Len(ConstructorDecl.parameters) - 1)] :
        \A name \in ParameterNames : ConstructorDecl.parameters[at[name] + 1].name = name }

\* what the claim expects for a read: a parameter from its argument, this.f
\* from its place among the instance fields, a local from its let
ExpectedRead(term, at) ==
    CASE term.term = "Number" -> <<Push("constant", term.num)>>
      [] term.term = "Identifier" /\ term.name \in ParameterNames ->
           <<Push("argument", at[term.name])>>
      [] term.term = "Identifier" ->
           <<Push("local", LetIndex(ConstructorDecl.block, term.name))>>
      [] OTHER -> <<Push("this", InstanceFieldIndex(term.right.name))>>

ExpectedStatement(statement, at) ==
    IF statement.statement = "Let"
    THEN ExpectedRead(statement.value_expr, at)
         \o <<Pop("local", LetIndex(ConstructorDecl.block, statement.name))>>
    ELSE ExpectedRead(statement.value_expr, at)
         \o <<Pop("this", InstanceFieldIndex(statement.dest_expr.right.name))>>

RECURSIVE ExpectedBody(_, _)
ExpectedBody(block, at) ==
    IF block = << >> THEN << >>
    ELSE ExpectedStatement(Head(block), at) \o ExpectedBody(Tail(block), at)

ConstructorCompiled == HasConstructor /\ compiled.res = "ok"

ExpectedConstructor(at) ==
    <<Function(QualifiedName(CompiledClass.name, NEW_WORD),
               Len(LetsOf(ConstructorDecl.block))),
      Push("constant", Len(InstanceFields)),
      Call(MEMORY_ALLOC, 1),
      Pop("pointer", 0)>>
    \o ExpectedBody(ConstructorDecl.block, at)
    \o <<Push("pointer", 0), Return>>

\* C18: for a class with a constructor the compiler emits exactly
\* Function(Class.new, number of lets), Push(Constant, number of instance
\* fields), Call(Memory.alloc, 1), Pop(Pointer, 0), the body with a parameter
\* read from the argument of its position and this.f as This[index of f
\* among the instance fields], then Push(Pointer, 0), Return.
ConstructorEmission ==
    ConstructorCompiled =>
      \E at \in ParameterPositions : compiled.tokens = ExpectedConstructor(at)

\* no two parameters of the constructor have the same name
DistinctParameters == Cardinality(ParameterNames) = Len(ConstructorDecl.parameters)

\* the same for the constructors whose parameters have names of their own
ConstructorEmissionDistinct ==
    ConstructorCompiled /\ DistinctParameters =>
      \E at \in ParameterPositions : compiled.tokens = ExpectedConstructor(at)

\* the function a token of the compiled stream lies in: the place of the
\* last Function token up to it
CompiledFunctionOf(k) ==
    CHOOSE i \in 1..k : /\ compiled.tokens[i].op = "function"
                        /\ \A j \in (i + 1)..k : compiled.tokens[j].op # "function"

\* two Label tokens of one compiled function with the same name
RepeatedLabels ==
    { pair \in (1..Len(compiled.tokens)) \X (1..Len(compiled.tokens)) :
        /\ pair[1] < pair[2]
        /\ compiled.tokens[pair[1]].op = "label" /\ compiled.tokens[pair[2]].op = "label"
        /\ compiled.tokens[pair[1]].name = compiled.tokens[pair[2]].name
        /\ CompiledFunctionOf(pair[1]) = CompiledFunctionOf(pair[2]) }

CompiledLoaded == compiled.res = "ok" /\ input # NoProgram

\* C19: in the tokens the compiler emits for a method, with any number of
\* while statements in sequence or nested, no two Label tokens carry the
\* same name, and the loader does not fail on the compiled function with a
\* label declared twice.
WhileLabelsUnique ==
    /\ compiled.res = "ok" => RepeatedLabels = {}
    /\ CompiledLoaded => program.ok \/ program.err # "DuplicateLabel"

\* two fields of the class with the same name, of the two scopes given
SameNameFields(first_scope, second_scope) ==
    \E i, j \in 1..Len(CompiledClass.fields) :
        /\ i # j
        /\ CompiledClass.fields[i].name = CompiledClass.fields[j].name
        /\ CompiledClass.fields[i].scope = first_scope
        /\ CompiledClass.fields[j].scope = second_scope

Compiled == module # << >> /\ compiled # NotCompiled

\* C20: compiling a module fails with an error whenever a class declares
\* two fields with the same name, whatever their scopes: two static fields,
\* two instance fields, or a static and an instance field.
DuplicateFieldFails ==
    \A first_scope, second_scope \in Scopes :
        Compiled /\ SameNameFields(first_scope, second_scope) => compiled.res = "err"

\* the same for two fields of one scope
DuplicateFieldOfOneScopeFails ==
    \A scope \in Scopes : Compiled /\ SameNameFields(scope, scope) => compiled.res = "err"

MethodDeclOf == CompiledClass.methods[1]

MethodCompiled == module \in MethodModules /\ compiled.res = "ok"

\* the position of the parameter of a name, counted from 0
PositionOf(parameters, name) ==
    (CHOOSE i \in 1..Len(parameters) : parameters[i].name = name) - 1

\* where the claim binds the parameters of a method: after the receiver in
\* an instance method, from 0 on in a static one
FirstParameterIndex(scope) == IF scope = "Instance" THEN 1 ELSE 0

RECURSIVE ExpectedParameterRead(_, _)
ExpectedParameterRead(term, method) ==
    IF term.term = "Identifier"
    THEN <<Push("argument", PositionOf(method.parameters, term.name)
                            + FirstParameterIndex(method.scope))>>
    ELSE ExpectedParameterRead(term.left, method) \o ExpectedParameterRead(term.right, method)
         \o <<Arith(OpTokens[term.op])>>

ExpectedMethod(method) ==
    <<Function(QualifiedName(CompiledClass.name, method.name), 0)>>
    \o (IF method.scope = "Instance" THEN <<Push("argument", 0), Pop("pointer", 0)>>
        ELSE << >>)
    \o ExpectedParameterRead(method.block[1].expr, method)
    \o <<Return>>

\* the methods of a scope read their parameters as the claim says
MethodBinding(scope) ==
    MethodCompiled /\ MethodDeclOf.scope = scope => compiled.tokens = ExpectedMethod(MethodDeclOf)

\* C21: in a compiled instance method argument 0 is the receiver and the
\* i-th parameter, counted from 0, is read with push argument i+1; in a
\* static method or a constructor the i-th parameter is read with push
\* argument i.
ParameterBinding ==
    /\ MethodBinding("Instance")
    /\ MethodBinding("Static")
    /\ ConstructorEmissionDistinct

\* the part of it about static methods
StaticParameterBinding == MethodBinding("Static")

\* C22: every failure of the compiler is returned as an error value and
\* compilation never aborts: compile returns a token list or an error.
CompileNeverAborts == Compiled => compiled.res \in {"ok", "err"}

\* the errors that are returned as values
CompileErrorsReturned ==
    Compiled /\ module \in UnhandledModules /\ compiled.res = "err"
      => compiled.why \in {"variable has not been declared with a let statement",
                           "is not a known type"}

(***************************************************************************)
(* Labels and fused pairs of the loaded functions.                         *)
(***************************************************************************)
\* the position of the Function token of the function a position lies in
FunctionStartOf(p) ==
    CHOOSE k \in 1..p[2] : /\ input.files[p[1]].tokens[k].op = "function"
                           /\ \A j \in (k + 1)..p[2] :
                                input.files[p[1]].tokens[j].op # "function"

\* the position holds the Pop of an adjacent Push, Pop pair
SecondOfPair(fi, j) ==
    /\ j > 1
    /\ input.files[fi].tokens[j].op = "pop"
    /\ input.files[fi].tokens[j - 1].op = "push"

\* the commands of the function that come before the position: its tokens
\* from the Function token on, without the labels, a pair counted once
CommandsBefore(p) ==
    Cardinality({ j \in FunctionStartOf(p)..(p[2] - 1) :
                    /\ input.files[p[1]].tokens[j].op # "label"
                    /\ ~SecondOfPair(p[1], j) })

\* the loaded function a position lies in
LoadedFunctionOf(p) ==
    program.files[p[1]].functions[FunctionIndexAt(p[1], FunctionStartOf(p) + 1)]

\* the loaded command of the token at the position
LoadedCommandAt(p) == LoadedFunctionOf(p).commands[CommandsBefore(p) + 1]

BranchPositions == { p \in Positions : TokenAt(p).op \in {"goto", "if-goto"} }

\* the label of its own function a branch names
OwnLabelOf(p) ==
    CHOOSE q \in Positions : SameFunction(p, q) /\ Declares(q, TokenAt(p).name)

\* some function of the files declares a label twice
LabelDeclaredTwice ==
    \E q, r \in Positions :
        /\ q # r /\ SameFunction(q, r)
        /\ TokenAt(q).op = "label" /\ Declares(r, TokenAt(q).name)

\* C23: for every loaded function the Label tokens are removed and each
\* Goto/If carries the index, in the function's final command sequence, of
\* the first command after the label of its own function, whatever labels
\* other functions declare; a label declared twice in a function fails the
\* load.
LabelsResolvePerFunction ==
    /\ program.ok =>
         /\ \A fi \in 1..Len(program.files) :
              \A k \in 1..Len(program.files[fi].functions) :
                \A i \in 1..Len(program.files[fi].functions[k].commands) :
                  program.files[fi].functions[k].commands[i].op # "label"
         /\ \A p \in BranchPositions :
              /\ LoadedCommandAt(p).op = (IF TokenAt(p).op = "goto" THEN "Goto" ELSE "If")
              /\ LoadedCommandAt(p).index = CommandsBefore(OwnLabelOf(p))
    /\ LabelDeclaredTwice => ~program.ok

\* a loaded program in which two functions declare the same label at
\* different command indices and each branches to its own
LoadedSameLabelTwice ==
    /\ program.ok
    /\ \E p, q \in BranchPositions :
         /\ ~SameFunction(p, q)
         /\ TokenAt(p).name = TokenAt(q).name
         /\ LoadedCommandAt(p).index # LoadedCommandAt(q).index

(***************************************************************************)
(* The fused pair: how it loads and what a step on it does.                *)
(***************************************************************************)
PairPositions == { p \in Positions : SecondOfPair(p[1], p[2]) }

\* every adjacent Push, Pop pair of a loaded function is one CopySeg command
PairsLoadFused ==
    program.ok =>
      \A p \in PairPositions :
        LET push    == TokenAt(<<p[1], p[2] - 1>>)
            pop     == TokenAt(p)
            command == LoadedCommandAt(<<p[1], p[2] - 1>>)
        IN  /\ command.op = "CopySeg"
            /\ command.from_segment = push.seg /\ command.from_index = push.idx
            /\ command.to_segment = pop.seg /\ command.to_index = pop.idx

\* the literal for constant, else the cell of the source segment
CopySource ==
    LET c == LastCommand.command
    IN  IF c.from_segment = "constant" THEN c.from_index
        ELSE Read(prev.ram, segment_address(Before, c.from_segment, c.from_index).addr)

CopyDestination ==
    segment_address(Before, LastCommand.command.to_segment,
                    LastCommand.command.to_index).addr

\* the destination holds the source value, the frame moved on by one
\* command with its stack size as it was, no other cell changed
CopySegWrote ==
    /\ ram = Write(prev.ram, CopyDestination, CopySource)
    /\ call_stack = SetTop(prev.call_stack, [FrameBefore EXCEPT !.index = @ + 1])

\* C24: an adjacent Push(s1,i1), Pop(s2,i2) pair of a function loads as one
\* CopySeg command, and a step executing CopySeg writes the source value
\* into the cell s2[i2], advances the frame's command index by one and
\* leaves SP, the frame's stack size and every other RAM cell unchanged.
CopySegFrameEffect ==
    /\ PairsLoadFused
    /\ StepDid("CopySeg") =>
         /\ result.kind = "Continue"
         /\ CopySegWrote
         /\ Read(ram, SP) = Read(prev.ram, SP)

\* what the code does on the steps that succeed: SP stays unless it is the
\* destination cell itself
CopySegWritesDestination ==
    /\ PairsLoadFused
    /\ StepOk("CopySeg") =>
         /\ CopySegWrote
         /\ CopyDestination # SP => Read(ram, SP) = Read(prev.ram, SP)

\* a successful CopySeg step whose destination is the cell of SP
CopySegWroteSp ==
    /\ StepOk("CopySeg") /\ CopyDestination = SP
    /\ Read(ram, SP) # Read(prev.ram, SP)

\* a CopySeg step that aborted
CopySegAborted == StepDid("CopySeg") /\ result.kind = "Panic"

(***************************************************************************)
(* Integer literals.                                                       *)
(***************************************************************************)
\* the literals of the body in source order
LiteralsOf(expr) ==
    IF expr.term = "Number" THEN <<expr.num>>
    ELSE <<expr.left.num, expr.right.num>>

SourceLiterals == LiteralsOf(module[1].methods[1].block[1].expr)

\* the values of the constant pushes of the compiled tokens, in order
RECURSIVE ConstantsPushed(_)
ConstantsPushed(tokens) ==
    IF tokens = << >> THEN << >>
    ELSE (IF Head(tokens).op = "push" /\ Head(tokens).seg = "constant"
          THEN <<Head(tokens).idx>> ELSE << >>) \o ConstantsPushed(Tail(tokens))

LiteralCompiled == Compiled /\ module \in LiteralModules

\* C25: for every integer literal n of the source the compiler emits a push
\* of the constant n itself, also for n >= 65536.
LiteralsEmittedUnchanged ==
    LiteralCompiled =>
      /\ compiled.res = "ok"
      /\ ConstantsPushed(compiled.tokens) = SourceLiterals

\* what the code emits: the literal cut to its low 16 bits
LiteralsEmittedModulo ==
    LiteralCompiled =>
      /\ compiled.res = "ok"
      /\ ConstantsPushed(compiled.tokens)
           = [k \in 1..Len(SourceLiterals) |-> SourceLiterals[k] % U16_MOD]

\* a literal past 16 bits compiled to a push of another constant
LiteralCutOff ==
    /\ LiteralCompiled /\ compiled.res = "ok"
    /\ \E k \in 1..Len(SourceLiterals) :
         /\ SourceLiterals[k] >= U16_MOD
         /\ ConstantsPushed(compiled.tokens)[k] # SourceLiterals[k]

(***************************************************************************)
(* if-goto in the interpreter and in the compiled program.                 *)
(***************************************************************************)
BothReturned == result.kind = "Halted" /\ native.status = "returned"

\* the interpreter's step on an If went to the target exactly on -1
EmulatorBranchesOnMinusOne ==
    StepOk("If") =>
      Top(call_stack).index = IF PoppedA = -1 THEN LastCommand.command.index
                              ELSE FrameBefore.index + 1

NativeDidIf == native.last.op = "if-goto" /\ native.status # "undefined"

\* C26: the x86-64 back end and the emulator make the same decision for
\* if-goto on every popped value v: both take the branch if and only if
\* v = -1 and fall through for 0 and for every other value, so a compiled
\* program and its interpreted run return the same code.
SameBranchDecision ==
    /\ EmulatorBranchesOnMinusOne
    /\ NativeDidIf => (native.last.jumped <=> native.last.popped = -1)
    /\ BothReturned => native.rax = result.value

\* what the two do: the emulator branches on -1 only, the compiled program
\* on every value but 0, and the codes agree when every value an if-goto
\* popped was 0 or -1
BranchOnNonZero ==
    /\ EmulatorBranchesOnMinusOne
    /\ NativeDidIf => (native.last.jumped <=> native.last.popped # 0)
    /\ BothReturned /\ native.tested \subseteq {0, -1} => native.rax = result.value

\* both finished and return different codes
ReturnCodesDiffer == BothReturned /\ native.rax # result.value

(***************************************************************************)
(* The frame's stack_size and the operands of the frame.                   *)
(***************************************************************************)
\* how many operands a command of the running function removes and adds;
\* a call counts when it has completed
OperandsRemoved(command) ==
    CASE command.op \in {"Pop", "If"} -> 1
      [] command.op = "Arithmetic" -> IF command.operation \in {"neg", "not"} THEN 1 ELSE 2
      [] command.op = "Call" -> command.n
      [] OTHER -> 0

OperandsAdded(command) ==
    CASE command.op \in {"Push", "Arithmetic", "Call"} -> 1
      [] OTHER -> 0

\* a successful step inside one frame: neither a call of a function of the
\* program nor a return
SteppedInFrame ==
    /\ op.name = "step" /\ result.kind = "Continue"
    /\ LastCommand.some /\ LastCommand.ok
    /\ LastCommand.command.op # "Return"
    /\ ~(LastCommand.command.op = "Call" /\ LastCommand.command.fn.kind = "InCode")

CountedInFrame ==
    SteppedInFrame =>
      Top(call_stack).stack_size
        = FrameBefore.stack_size - OperandsRemoved(LastCommand.command)
            + OperandsAdded(LastCommand.command)

\* a frame starts without operands
CountedFromZero ==
    /\ op.name = "init" /\ result.kind = "Ok" => Top(call_stack).stack_size = 0
    /\ StepOk("Call") /\ LastCommand.command.fn.kind = "InCode"
         => Top(call_stack).stack_size = 0

\* the completed call removed its arguments and added its result
CountedOverCall ==
    Returned =>
      Top(call_stack).stack_size = ReturnedFrom.stack_size - ReturnedFrom.num_args + 1

\* the operands a called frame had before the last step: the cells above
\* its locals, or above the cells the call saved while the Function command
\* has not yet pushed the locals
OwnOperandsBefore ==
    LET call == prev.calls[Len(prev.call_stack)]
        locals == IF FrameBefore.index = 0 THEN 0
                  ELSE get_vmfunction(FrameBefore.function).num_locals
    IN  SpBefore - (call.sp + SAVED_CELLS + locals)

\* a step of a called frame on a Pop or an If
PoppedInCalledFrame ==
    /\ op.name = "step"
    /\ LastCommand.some /\ LastCommand.ok
    /\ LastCommand.command.op \in {"Pop", "If"}
    /\ Len(prev.call_stack) > 1 /\ prev.calls[Len(prev.call_stack)].known

EmptyStackError == result.kind = "Err" /\ result.why = "LocalStackEmpty"

\* C27: in every reachable state the top frame's stack_size equals the
\* number of operand values the frame has on the global stack above its
\* locals (its pushes minus its pops, a completed call with n arguments
\* removing n values and adding one); so pop_stack fails with the
\* empty-stack error exactly when the function has no operand of its own
\* left, also after calls have returned into it.
StackSizeCountsOperands ==
    /\ CountedFromZero /\ CountedInFrame /\ CountedOverCall
    /\ PoppedInCalledFrame => (EmptyStackError <=> OwnOperandsBefore <= 0)

\* what the code keeps: the count inside a frame, and over a call the five
\* cells the call pushed for the caller, which the return does not take off
StackSizeKeepsSavedCells ==
    /\ CountedFromZero /\ CountedInFrame
    /\ Returned => Top(call_stack).stack_size = ReturnedFrom.stack_size + SAVED_CELLS
    /\ PoppedInCalledFrame => (EmptyStackError <=> FrameBefore.stack_size = 0)

\* a pop that succeeded in a function with no operand of its own, after a
\* call had returned into it
PoppedBelowOperands ==
    /\ PoppedInCalledFrame /\ result.kind = "Continue"
    /\ OwnOperandsBefore <= 0

(***************************************************************************)
(* init and run on an emulator that has been used.                         *)
(***************************************************************************)
SysInitFrame == new_frame(get_function_ref("Sys.init").ref, 0)

\* an emulator as VMEmulator::new leaves it
FreshMachine == [ram |-> EmptyRam, call_stack |-> << >>]

\* an init that succeeded on an emulator that had a frame
InitAgain == op.name = "init" /\ result.kind = "Ok" /\ prev.call_stack # << >>

\* the result the host sees of the run r
RunResult(r) ==
    CASE r.out.res = "ok" -> Result("Ok", r.out.val, "")
      [] r.out.res = "err" -> Result("Err", 0, r.out.why)
      [] r.out.res = "panic" -> Result("Panic", 0, "")

\* a run on an emulator that had a frame: after an init, or after a run
RunAgain == op.name = "run" /\ prev.call_stack # << >>

\* C28: after init, called directly or through run and whatever was
\* executed before, the call stack is exactly one frame, for Sys.init at
\* command index 0, and SP = 256; hence run called after init, or a second
\* time, treats the return of Sys.init as the halt of the program just as
\* on a fresh emulator.
InitLeavesOneFrame ==
    /\ op.name = "init" /\ result.kind = "Ok" =>
         call_stack = <<SysInitFrame>> /\ Read(ram, SP) = STACK_BASE
    /\ op.name = "run" =>
         result = RunResult(run(FreshMachine, prev.step_counter, op.max_steps))

\* what init does: SP = 256 and one more frame, for Sys.init at index 0,
\* on top of the frames there were
InitPushesFrame ==
    op.name = "init" /\ result.kind = "Ok" =>
      call_stack = Append(prev.call_stack, SysInitFrame) /\ Read(ram, SP) = STACK_BASE

\* a run that ended otherwise than the run of a fresh emulator does
RunAgainDiffers ==
    /\ RunAgain
    /\ result # RunResult(run(FreshMachine, prev.step_counter, op.max_steps))

(***************************************************************************)
(* The static area and the global stack.                                   *)
(***************************************************************************)
RECURSIVE SumOfStatics(_)
SumOfStatics(files) ==
    IF files = << >> THEN 0 ELSE Head(files).num_statics + SumOfStatics(Tail(files))

\* the first cell after the statics of all files
StaticsEnd == STATIC_BASE + SumOfStatics(program.files)

IsStaticCell(a) == STATIC_BASE <= a /\ a < StaticsEnd

\* the last step pushed a value: it wrote the cell at the old SP
PushedOnStack == StepOk("Push") /\ SpBefore >= STACK_BASE

\* C29: for every program that loads, the whole static area lies below the
\* global stack: 16 + the sum of num_statics over all files is at most 256,
\* so no static cell of a file is a cell of the global stack and a push
\* never overwrites a static.
StaticsBelowStack ==
    program.ok =>
      /\ StaticsEnd <= STACK_BASE
      /\ PushedOnStack => ~IsStaticCell(SpBefore)

\* the statics of the programs with at most 240 of them lie below the stack
FewStaticsBelowStack ==
    program.ok /\ SumOfStatics(program.files) <= STACK_BASE - STATIC_BASE =>
      /\ StaticsEnd <= STACK_BASE
      /\ PushedOnStack => ~IsStaticCell(SpBefore)

\* a push that wrote a cell a static had been stored in
PushOverwroteStatic ==
    /\ program.ok /\ PushedOnStack /\ IsStaticCell(SpBefore)
    /\ Read(ram, SpBefore) # Read(prev.ram, SpBefore)

(***************************************************************************)
(* Branch targets and the end of a function.                               *)
(***************************************************************************)
LoadedFunctions ==
    UNION { { program.files[fi].functions[k] : k \in 1..Len(program.files[fi].functions) } :
              fi \in 1..Len(program.files) }

Branches(function) ==
    { c \in { function.commands[i] : i \in 1..Len(function.commands) } :
        c.op \in {"Goto", "If"} }

\* the last step was a Goto, or an If that went to its target
BranchTaken ==
    \/ StepOk("Goto")
    \/ StepOk("If") /\ PoppedA = -1

\* the frame stood behind the last command of its function when the host
\* stepped
SteppedPastEnd ==
    /\ op.name = "step" /\ prev.call_stack # << >>
    /\ FrameBefore.function.file_index < Len(program.files)
    /\ FrameBefore.function.function_index
         < Len(program.files[FrameBefore.function.file_index + 1].functions)
    /\ FrameBefore.index >= Len(get_vmfunction(FrameBefore.function).commands)

\* C30: in every function of a loaded program every Goto/If target is a
\* command index of the function (target < number of commands), also when
\* the label is the last token; so after a taken branch the next step finds
\* a command, and a frame whose index has run past the last command makes
\* step return the no-more-commands error and not abort.
BranchTargetsInRange ==
    /\ program.ok =>
         \A function \in LoadedFunctions :
           \A c \in Branches(function) : c.index < Len(function.commands)
    /\ BranchTaken => next_command(Machine).some /\ next_command(Machine).ok
    /\ SteppedPastEnd => result.kind = "Err" /\ result.why = "NoMoreCommands"

\* what the code gives: a target is at most the number of commands, and a
\* step of a frame that stands behind its last command aborts
BranchTargetsUpToEnd ==
    /\ program.ok =>
         \A function \in LoadedFunctions :
           \A c \in Branches(function) : c.index <= Len(function.commands)
    /\ BranchTaken => Top(call_stack).index = LastCommand.command.index
    /\ SteppedPastEnd => result.kind = "Panic"

\* a branch went to the label that is the last token of its function
BranchedToTrailingLabel ==
    /\ BranchTaken
    /\ Top(call_stack).index = Len(get_vmfunction(Top(call_stack).function).commands)

\* the step after it aborted
AbortedPastEnd == SteppedPastEnd /\ result.kind = "Panic"

====
